---------------------------- MODULE Spec2Model ----------------------------
(***************************************************************************)
(* Microplastic particle morphology pipeline: morphology calculation       *)
(* (region policy of ImageProcessor.extract_particles, bounding-box policy *)
(* of YOLODetector._calculate_morphology), particle classification, sample *)
(* aggregation and the statistics/report built on the sample table.        *)
(*                                                                         *)
(* Numbers.  Python/NumPy floats are modelled as exact rationals           *)
(* [k |-> "num", n, d] (d > 0, lowest terms) together with the two IEEE    *)
(* specials the code can produce, NaN and +Inf.  Comparisons follow IEEE   *)
(* (every comparison with NaN is false).  The only irrational operation,   *)
(* sqrt, is computed to 1/1000 (floor); pi is taken as 355/113.            *)
(***************************************************************************)
EXTENDS Integers, Sequences, FiniteSets, TLC

(***************************************************************************)
(* Bounds of the model                                                     *)
(***************************************************************************)
\* longest list of raw detections handed to one extract/detect call
MaxParticles == 2

(***************************************************************************)
(* Floating point values                                                   *)
(***************************************************************************)
None == "None"

Abs(i) == IF i < 0 THEN -i ELSE i

RECURSIVE Gcd(_, _)
Gcd(a, b) == IF b = 0 THEN a ELSE Gcd(b, a % b)

\* the rational n/d in lowest terms with a positive denominator (d # 0)
Num(n, d) ==
    LET g == Gcd(Abs(n), Abs(d))
        s == IF d < 0 THEN -1 ELSE 1
    IN  [k |-> "num", n |-> s * (n \div g), d |-> s * (d \div g)]

I(n) == [k |-> "num", n |-> n, d |-> 1]
NaN == [k |-> "nan", n |-> 0, d |-> 1]
Inf == [k |-> "inf", n |-> 1, d |-> 1]

\* an optional numeric argument that was not given
NoneNum == [k |-> "None", n |-> 0, d |-> 1]

IsNone(x) == x.k = "None"
IsNum(x) == x.k = "num"
IsNaN(x) == x.k = "nan"
IsInf(x) == x.k = "inf"
\* math.isfinite
IsFinite(x) == IsNum(x)

\* a < b on floats
Lt(a, b) ==
    CASE IsNaN(a) \/ IsNaN(b) -> FALSE
      [] IsInf(a) -> FALSE
      [] IsInf(b) -> TRUE
      [] OTHER -> a.n * b.d < b.n * a.d

\* a <= b on floats
Le(a, b) ==
    CASE IsNaN(a) \/ IsNaN(b) -> FALSE
      [] IsInf(b) -> TRUE
      [] IsInf(a) -> FALSE
      [] OTHER -> a.n * b.d <= b.n * a.d

\* a == b on floats (NaN differs from everything, itself included)
Eq(a, b) == Le(a, b) /\ Le(b, a)

Neg(a) == IF IsNum(a) THEN [a EXCEPT !.n = -a.n] ELSE NaN

\* a * b; +Inf only meets positive finite factors in this program
Mul(a, b) ==
    CASE IsNaN(a) \/ IsNaN(b) -> NaN
      [] IsInf(a) \/ IsInf(b) ->
            IF (IsNum(a) /\ a.n <= 0) \/ (IsNum(b) /\ b.n <= 0) THEN NaN ELSE Inf
      [] OTHER -> Num(a.n * b.n, a.d * b.d)

Add(a, b) ==
    CASE IsNaN(a) \/ IsNaN(b) -> NaN
      [] IsInf(a) \/ IsInf(b) -> Inf
      [] OTHER -> Num(a.n * b.d + b.n * a.d, a.d * b.d)

Sub(a, b) == Add(a, Neg(b))

\* a / b as NumPy scalars divide: x/0 is +Inf (x > 0) or NaN, never an exception
Div(a, b) ==
    CASE IsNaN(a) \/ IsNaN(b) -> NaN
      [] IsInf(a) -> IF IsNum(b) /\ b.n > 0 THEN Inf ELSE NaN
      [] IsInf(b) -> I(0)
      [] b.n = 0 -> IF a.n > 0 THEN Inf ELSE NaN
      [] OTHER -> Num(a.n * b.d, a.d * b.n)

\* variant of Max2 that takes its first argument
FirstOf(a, b) == a

Max2(a, b) == IF Lt(a, b) THEN b ELSE a
Min2(a, b) == IF Lt(b, a) THEN b ELSE a

RECURSIVE Pow10(_)
Pow10(e) == IF e = 0 THEN 1 ELSE 10 * Pow10(e - 1)

\* nearest integer to n/d (d > 0), ties to the even neighbour
RoundHalfEven(n, d) ==
    LET q == n \div d
        r == n % d
    IN  CASE 2 * r < d -> q
          [] 2 * r > d -> q + 1
          [] OTHER -> IF q % 2 = 0 THEN q ELSE q + 1

\* round(x, ndigits)
Round(x, ndigits) ==
    IF IsNum(x)
    THEN Num(RoundHalfEven(x.n * Pow10(ndigits), x.d), Pow10(ndigits))
    ELSE x

RECURSIVE ISqrtBetween(_, _, _)
ISqrtBetween(x, lo, hi) ==
    IF lo >= hi THEN lo
    ELSE LET mid == (lo + hi + 1) \div 2
         IN  IF mid * mid <= x THEN ISqrtBetween(x, mid, hi)
             ELSE ISqrtBetween(x, lo, mid - 1)

\* floor of the square root of a natural number below 2^31
ISqrt(x) == ISqrtBetween(x, 0, 46340)

\* np.sqrt: NaN for a negative argument, otherwise the root to 1/1000
\* (to 1/100 for arguments above 2000)
Sqrt(x) ==
    CASE IsNaN(x) -> NaN
      [] IsInf(x) -> Inf
      [] x.n < 0 -> NaN
      [] OTHER ->
            LET q == (x.n * 10000) \div x.d
            IN  IF q < 20000000 THEN Num(ISqrt(q * 100), 1000)
                ELSE Num(ISqrt(q), 100)

\* np.pi
Pi == Num(355, 113)

\* `value or default` on an optional number: None and 0 are both falsy
OrDefault(value, default) ==
    IF IsNone(value) \/ (IsNum(value) /\ value.n = 0) THEN default ELSE value

(***************************************************************************)
(* Configuration (config/config.py)                                        *)
(***************************************************************************)
\* IMAGE_PARAMS
IMAGE_PARAMS ==
    [pixels_to_um |-> I(1), threshold |-> 127,
     min_particle_area |-> I(10), max_particle_area |-> I(50000)]

Cat(name, lo, hi) == [name |-> name, min_val |-> lo, max_val |-> hi]

\* MORPHOLOGY_PARAMS: each dict is a sequence, in insertion order
MORPHOLOGY_PARAMS ==
    [size_categories |->
        << Cat("pequeño", I(0), I(50)),
           Cat("mediano", I(50), I(200)),
           Cat("grande", I(200), Inf) >>,
     aspect_ratio_categories |->
        << Cat("esférico", Num(8, 10), Num(12, 10)),
           Cat("alargado", Num(12, 10), I(3)),
           Cat("fibra", I(3), Inf) >>]

\* the same file edited so that ranges overlap
OverlappingParams ==
    [size_categories |->
        << Cat("pequeño", I(0), I(100)),
           Cat("mediano", I(50), I(200)),
           Cat("grande", I(100), Inf) >>,
     aspect_ratio_categories |->
        << Cat("esférico", Num(8, 10), I(2)),
           Cat("alargado", Num(12, 10), I(3)),
           Cat("fibra", I(1), Inf) >>]

\* the same file edited so that ranges leave gaps
GappedParams ==
    [size_categories |->
        << Cat("grande", I(200), Inf),
           Cat("pequeño", I(0), I(50)) >>,
     aspect_ratio_categories |->
        << Cat("fibra", I(3), Inf),
           Cat("esférico", Num(8, 10), Num(12, 10)) >>]

Configurations == {MORPHOLOGY_PARAMS, OverlappingParams, GappedParams}

(***************************************************************************)
(* Particle classifier of StatisticalAnalyzer                              *)
(***************************************************************************)
\* variant of InRange with a closed upper end: min_val <= value <= max_val
InRangeClosedAbove(min_val, value, max_val) ==
    Le(min_val, value) /\ Le(value, max_val)

\* min_val <= value < max_val
InRange(min_val, value, max_val) == Le(min_val, value) /\ Lt(value, max_val)

\* variant of FirstMatch in which the last matching category wins
RECURSIVE LastMatchFrom(_, _, _)
LastMatchFrom(categories, value, i) ==
    IF i > Len(categories) THEN "indefinido"
    ELSE LET later == LastMatchFrom(categories, value, i + 1)
         IN  IF later # "indefinido" THEN later
             ELSE IF InRange(categories[i].min_val, value, categories[i].max_val)
                  THEN categories[i].name
                  ELSE "indefinido"

\* variant of FirstMatch that falls back to the last category, not a sentinel
RECURSIVE FirstMatchElseLast(_, _, _)
FirstMatchElseLast(categories, value, i) ==
    IF i > Len(categories)
    THEN IF categories = << >> THEN "indefinido"
         ELSE categories[Len(categories)].name
    ELSE IF InRange(categories[i].min_val, value, categories[i].max_val)
         THEN categories[i].name
         ELSE FirstMatchElseLast(categories, value, i + 1)

\* the for loop over categories.items(), from position i on
RECURSIVE FirstMatch(_, _, _)
FirstMatch(categories, value, i) ==
    IF i > Len(categories) THEN "indefinido"
    ELSE IF InRange(categories[i].min_val, value, categories[i].max_val)
         THEN categories[i].name
         ELSE FirstMatch(categories, value, i + 1)

_classify_by_size(size_cats, diameter) == FirstMatch(size_cats, diameter, 1)

_classify_by_aspect_ratio(aspect_cats, aspect_ratio) ==
    FirstMatch(aspect_cats, aspect_ratio, 1)

(***************************************************************************)
(* Morphology, bounding-box policy (YOLODetector)                          *)
(***************************************************************************)
\* YOLODetector.CLASS_NAMES
CLASS_NAMES ==
    << "fibra", "fragmento", "pelicula", "esfera",
       "microplastico_irregular", "aglomerado" >>

\* self.model.names of a model trained on the declared classes
ModelNames == [c \in 0..5 |-> CLASS_NAMES[c + 1]]

_get_class_name(class_id) ==
    IF class_id \in DOMAIN ModelNames THEN ModelNames[class_id]
    ELSE IF 0 <= class_id /\ class_id < Len(CLASS_NAMES)
         THEN CLASS_NAMES[class_id + 1]
         ELSE "clase_" \o ToString(class_id)

\* length_px * self.pixels_to_um
ToUm(length_px, s) == Mul(length_px, s)

\* variant of ToUm2 scaling an area by the factor, not by its square
ToUm2Linear(area_px, s) == Mul(area_px, s)

\* area_px * (self.pixels_to_um ** 2)
ToUm2(area_px, s) == Mul(area_px, Mul(s, s))

\* variant of BoxAspectRatio that divides the longer side by the shorter
BoxAspectRatioLongOverShort(width_px, height_px) ==
    Round(IF Lt(I(0), Min2(width_px, height_px))
          THEN Div(Max2(width_px, height_px), Min2(width_px, height_px))
          ELSE I(1), 3)

\* the aspect ratio _calculate_morphology returns: width over height, 1.0
\* for a height that is not positive, rounded to three decimals
BoxAspectRatio(width_px, height_px) ==
    Round(IF Lt(I(0), height_px) THEN Div(width_px, height_px) ELSE I(1), 3)

\* the elongation _calculate_morphology returns
BoxElongation(width_px, height_px) ==
    Round(IF Lt(I(0), Min2(width_px, height_px))
          THEN Div(Max2(width_px, height_px), Min2(width_px, height_px))
          ELSE I(1), 3)

\* _calculate_morphology(roi, bbox) with self.pixels_to_um = s; roi is unused
_calculate_morphology(bbox, s) ==
    LET x1 == I(bbox[1])
        y1 == I(bbox[2])
        x2 == I(bbox[3])
        y2 == I(bbox[4])
        width_px == Sub(x2, x1)
        height_px == Sub(y2, y1)
        area_px == Mul(width_px, height_px)
        width_um == ToUm(width_px, s)
        height_um == ToUm(height_px, s)
        area_um2 == ToUm2(area_px, s)
        perimeter_px == Mul(I(2), Add(width_px, height_px))
        perimeter_um == ToUm(perimeter_px, s)
        circularity ==
            IF Lt(I(0), perimeter_px)
            THEN Div(Mul(Mul(I(4), Pi), area_px), Mul(perimeter_px, perimeter_px))
            ELSE I(0)
        equivalent_diameter_px == Sqrt(Div(Mul(I(4), area_px), Pi))
        equivalent_diameter_um == ToUm(equivalent_diameter_px, s)
    IN  [area_um2 |-> Round(area_um2, 2),
         perimeter_um |-> Round(perimeter_um, 2),
         width_um |-> Round(width_um, 2),
         height_um |-> Round(height_um, 2),
         aspect_ratio |-> BoxAspectRatio(width_px, height_px),
         circularity |-> Round(circularity, 3),
         elongation |-> BoxElongation(width_px, height_px),
         equivalent_diameter_um |-> Round(equivalent_diameter_um, 2),
         centroid_x |-> Round(Div(Add(x1, x2), I(2)), 1),
         centroid_y |-> Round(Div(Add(y1, y2), I(2)), 1)]

\* one iteration of the loop of detect_particles: morphology plus metadata
DetectedParticle(box, idx, s) ==
    LET props == _calculate_morphology(box.xyxy, s)
        meta == [particle_id |-> I(idx + 1),
                 class_id |-> I(box.cls),
                 class_name |-> _get_class_name(box.cls),
                 confidence |-> box.conf,
                 bbox |-> box.xyxy,
                 detection_method |-> "YOLOv8"]
    IN  [f \in DOMAIN props \cup DOMAIN meta |->
            IF f \in DOMAIN meta THEN meta[f] ELSE props[f]]

\* detect_particles: the particle list for the boxes the model predicts
detect_particles(boxes, s) ==
    [i \in 1..Len(boxes) |-> DetectedParticle(boxes[i], i - 1, s)]

(***************************************************************************)
(* Morphology, region policy (ImageProcessor)                              *)
(***************************************************************************)
\* variant of RegionAspectRatio without the guard on the minor axis
RegionAspectRatioUnguarded(major_axis_length, minor_axis_length) ==
    Div(major_axis_length, minor_axis_length)

\* the aspect ratio of a region, 0 when the minor axis has no length
RegionAspectRatio(major_axis_length, minor_axis_length) ==
    IF Lt(I(0), minor_axis_length)
    THEN Div(major_axis_length, minor_axis_length)
    ELSE I(0)

\* the particle_info dict of one region
RegionParticle(region, s) ==
    [label |-> I(region.label),
     area_pixels |-> region.area,
     area_um2 |-> ToUm2(region.area, s),
     perimeter_pixels |-> region.perimeter,
     perimeter_um |-> ToUm(region.perimeter, s),
     centroid |-> region.centroid,
     bbox |-> region.bbox,
     major_axis |-> ToUm(region.major_axis_length, s),
     minor_axis |-> ToUm(region.minor_axis_length, s),
     eccentricity |-> region.eccentricity,
     solidity |-> region.solidity,
     orientation |-> region.orientation,
     aspect_ratio |->
        RegionAspectRatio(region.major_axis_length, region.minor_axis_length),
     equivalent_diameter_um |-> ToUm(region.equivalent_diameter, s)]

\* the loop of extract_particles over regions i.., with the area filter
RECURSIVE ExtractFrom(_, _, _, _, _)
ExtractFrom(regions, i, min_area, max_area, s) ==
    IF i > Len(regions) THEN << >>
    ELSE LET rest == ExtractFrom(regions, i + 1, min_area, max_area, s)
         IN  IF Le(min_area, regions[i].area) /\ Le(regions[i].area, max_area)
             THEN << RegionParticle(regions[i], s) >> \o rest
             ELSE rest

\* extract_particles(labeled_image, min_area, max_area)
extract_particles(regions, min_area, max_area, s) ==
    ExtractFrom(regions, 1,
                OrDefault(min_area, IMAGE_PARAMS.min_particle_area),
                OrDefault(max_area, IMAGE_PARAMS.max_particle_area), s)

(***************************************************************************)
(* State                                                                   *)
(***************************************************************************)
VARIABLES
    calibration,             \* the pixels_to_um argument given to the constructor
    pixels_to_um,            \* self.pixels_to_um of the processor / detector
    size_categories,         \* StatisticalAnalyzer.size_categories
    aspect_ratio_categories, \* StatisticalAnalyzer.aspect_ratio_categories
    policy,                  \* measurement policy of the last extraction
    detections,              \* raw detections of the last extraction
    filter,                  \* min_area / max_area arguments of the last extraction
    particles,               \* the particle list the caller holds
    sample_id,               \* sample_id argument of the last aggregation
    df,                      \* the SampleTable the caller holds
    result,                  \* return value of the last analyzer query
    raised,                  \* exception raised by the last call, or None
    results,                 \* self.results: the tables kept, keyed by sample id
    run,                     \* the analysis run of a GUI entry point
    gui                      \* the window of a GUI entry point: flags, buttons, threads

vars == << calibration, pixels_to_um, size_categories, aspect_ratio_categories,
           policy, detections, filter, particles, sample_id, df, result, raised,
           results, run, gui >>

\* values a caller gives as pixels_to_um (None: argument omitted)
Calibrations == {NoneNum, I(0), Num(1, 3), I(2)}

NoResult == [op |-> "none"]

\* no analysis run was started
NoRun == [status |-> "idle"]

\* no window: the analyzer is used as a library
NoGui == [entry |-> None]

\* the caller holds no table yet
NoDf == [exists |-> FALSE, columns |-> {}, rows |-> << >>]

\* ImageProcessor.__init__ / YOLODetector.__init__ / StatisticalAnalyzer.__init__
Init ==
    /\ calibration \in Calibrations
    /\ pixels_to_um = OrDefault(calibration, IMAGE_PARAMS.pixels_to_um)
    /\ size_categories = MORPHOLOGY_PARAMS.size_categories
    /\ aspect_ratio_categories = MORPHOLOGY_PARAMS.aspect_ratio_categories
    /\ policy = None
    /\ detections = << >>
    /\ filter = [min_area |-> NoneNum, max_area |-> NoneNum]
    /\ particles = << >>
    /\ sample_id = None
    /\ df = NoDf
    /\ result = NoResult
    /\ raised = None
    /\ results = << >>
    /\ run = NoRun
    /\ gui = NoGui

(***************************************************************************)
(* Direct calls of the classifier                                          *)
(***************************************************************************)
\* measurements handed to the classifier
Measurements ==
    { I(-1), I(0), Num(1, 2), Num(4, 5), I(1), Num(119, 100), Num(6, 5),
      Num(3, 2), I(3), Num(4999, 100), I(50), I(75), I(100), Num(19999, 100),
      I(200), I(1000), NaN }

ClassifyBySize(diameter) ==
    /\ result' = [op |-> "_classify_by_size", arg |-> diameter,
                  val |-> _classify_by_size(size_categories, diameter)]
    /\ raised' = None
    /\ UNCHANGED << gui, results, run, calibration, pixels_to_um, size_categories,
                    aspect_ratio_categories, policy, detections, filter,
                    particles, sample_id, df >>

ClassifyByAspectRatio(aspect_ratio) ==
    /\ result' = [op |-> "_classify_by_aspect_ratio", arg |-> aspect_ratio,
                  val |-> _classify_by_aspect_ratio(aspect_ratio_categories,
                                                    aspect_ratio)]
    /\ raised' = None
    /\ UNCHANGED << gui, results, run, calibration, pixels_to_um, size_categories,
                    aspect_ratio_categories, policy, detections, filter,
                    particles, sample_id, df >>

\* sides (width_px, height_px) of the boxes of a detector, whose corners are
\* floating-point numbers: the boxes of Boxes and boxes whose ratio lies
\* next to a limit of the default shape ranges
BoxSides ==
    { << I(10), I(40) >>, << I(40), I(10) >>, << I(40), I(30) >>,
      << I(4), I(4) >>, << I(0), I(4) >>, << I(4), I(0) >>, << I(-4), I(4) >>,
      << I(8), I(10) >>, << Num(7997, 1000), I(10) >>,
      << Num(799, 100), I(10) >>, << I(12), I(10) >>,
      << Num(11997, 1000), I(10) >>, << Num(1199, 100), I(10) >>,
      << I(30), I(10) >>, << Num(29997, 1000), I(10) >> }

\* the shape category particles_to_dataframe gives a particle of
\* detect_particles: _classify_by_aspect_ratio of the aspect ratio that
\* _calculate_morphology returned for the box
ClassifyBox(width_px, height_px) ==
    /\ result' = [op |-> "shape_category",
                  width_px |-> width_px, height_px |-> height_px,
                  elongation |-> BoxElongation(width_px, height_px),
                  val |-> _classify_by_aspect_ratio(
                              aspect_ratio_categories,
                              BoxAspectRatio(width_px, height_px))]
    /\ raised' = None
    /\ UNCHANGED << gui, results, run, calibration, pixels_to_um, size_categories,
                    aspect_ratio_categories, policy, detections, filter,
                    particles, sample_id, df >>

NextClassifier ==
    \/ \E v \in Measurements : ClassifyBySize(v)
    \/ \E v \in Measurements : ClassifyByAspectRatio(v)
    \/ \E sides \in BoxSides : ClassifyBox(sides[1], sides[2])

\* the analyzer constructed on any of the configurations
InitClassifier ==
    /\ calibration \in Calibrations
    /\ pixels_to_um = OrDefault(calibration, IMAGE_PARAMS.pixels_to_um)
    /\ \E params \in Configurations :
          /\ size_categories = params.size_categories
          /\ aspect_ratio_categories = params.aspect_ratio_categories
    /\ policy = None
    /\ detections = << >>
    /\ filter = [min_area |-> NoneNum, max_area |-> NoneNum]
    /\ particles = << >>
    /\ sample_id = None
    /\ df = NoDf
    /\ result = NoResult
    /\ raised = None
    /\ results = << >>
    /\ run = NoRun
    /\ gui = NoGui

SpecClassifier == InitClassifier /\ [][NextClassifier]_vars

(***************************************************************************)
(* Sample aggregator (StatisticalAnalyzer.particles_to_dataframe)          *)
(***************************************************************************)
\* truth value of a sample_id argument: None and '' are falsy
Truthy(sid) == sid # None /\ sid # ""

\* pd.DataFrame(particles): one row per dict, columns are the keys met
DataFrame(records) ==
    [exists |-> TRUE,
     columns |-> UNION {DOMAIN records[i] : i \in 1..Len(records)},
     rows |-> records]

\* df[name] = values (one value per row)
WithColumn(table, name, values) ==
    [exists |-> TRUE,
     columns |-> table.columns \cup {name},
     rows |-> [i \in 1..Len(table.rows) |->
                 [c \in DOMAIN table.rows[i] \cup {name} |->
                     IF c = name THEN values[i] ELSE table.rows[i][c]]]]

\* df[name] as a sequence
Column(table, name) == [i \in 1..Len(table.rows) |-> table.rows[i][name]]

\* particles_to_dataframe(particles, sample_id): the exception raised, if
\* any, and the table returned otherwise
particles_to_dataframe(parts, sid, size_cats, aspect_cats) ==
    LET df0 == DataFrame(parts)
        df1 == IF Truthy(sid)
               THEN WithColumn(df0, "sample_id", [i \in 1..Len(parts) |-> sid])
               ELSE df0
    IN  IF "equivalent_diameter_um" \notin df1.columns
        THEN [exc |-> "KeyError", df |-> NoDf]
        ELSE LET df2 == WithColumn(df1, "size_category",
                            [i \in 1..Len(parts) |->
                                _classify_by_size(size_cats,
                                    df1.rows[i].equivalent_diameter_um)])
             IN  IF "aspect_ratio" \notin df2.columns
                 THEN [exc |-> "KeyError", df |-> NoDf]
                 ELSE [exc |-> None,
                       df |-> WithColumn(df2, "shape_category",
                                [i \in 1..Len(parts) |->
                                    _classify_by_aspect_ratio(aspect_cats,
                                        df2.rows[i].aspect_ratio)])]

(***************************************************************************)
(* Descriptive statistics (StatisticalAnalyzer.calculate_descriptive_stats)*)
(***************************************************************************)
\* Series.dropna()
RECURSIVE DropNaFrom(_, _)
DropNaFrom(values, i) ==
    IF i > Len(values) THEN << >>
    ELSE IF IsNaN(values[i]) THEN DropNaFrom(values, i + 1)
         ELSE << values[i] >> \o DropNaFrom(values, i + 1)

dropna(values) == DropNaFrom(values, 1)

RECURSIVE SumFrom(_, _)
SumFrom(data, i) ==
    IF i > Len(data) THEN I(0) ELSE Add(data[i], SumFrom(data, i + 1))

\* Series.mean(): NaN for an empty series
Mean(data) == IF Len(data) = 0 THEN NaN ELSE Div(SumFrom(data, 1), I(Len(data)))

RECURSIVE Insert(_, _)
Insert(x, sorted) ==
    IF sorted = << >> THEN << x >>
    ELSE IF Le(x, Head(sorted)) THEN << x >> \o sorted
         ELSE << Head(sorted) >> \o Insert(x, Tail(sorted))

RECURSIVE SortFrom(_, _)
SortFrom(data, i) ==
    IF i > Len(data) THEN << >> ELSE Insert(data[i], SortFrom(data, i + 1))

\* linear interpolation at position pos / qd of the sorted values
Interpolate(sorted, pos, qd) ==
    IF pos % qd = 0 THEN sorted[(pos \div qd) + 1]
    ELSE Add(sorted[(pos \div qd) + 1],
             Mul(Sub(sorted[(pos \div qd) + 2], sorted[(pos \div qd) + 1]),
                 Num(pos % qd, qd)))

\* Series.quantile(qn/qd), linear interpolation; NaN for an empty series
Quantile(data, qn, qd) ==
    IF Len(data) = 0 THEN NaN
    ELSE Interpolate(SortFrom(data, 1), (Len(data) - 1) * qn, qd)

\* the integer nearest to x * scale
Scaled(x, scale) == RoundHalfEven(x.n * scale, x.d)

RECURSIVE SumSqFrom(_, _, _, _)
SumSqFrom(data, mean, scale, i) ==
    IF i > Len(data) THEN 0
    ELSE LET dv == Scaled(Sub(data[i], mean), scale)
         IN  dv * dv + SumSqFrom(data, mean, scale, i + 1)

RECURSIVE MaxAbsDevFrom(_, _, _)
MaxAbsDevFrom(data, mean, i) ==
    IF i > Len(data) THEN 0
    ELSE LET dv == Abs(Scaled(Sub(data[i], mean), 1))
             rest == MaxAbsDevFrom(data, mean, i + 1)
         IN  IF dv > rest THEN dv ELSE rest

\* Series.min() and Series.max(): NaN for an empty series
Minimum(data) == IF Len(data) = 0 THEN NaN ELSE SortFrom(data, 1)[1]
Maximum(data) == IF Len(data) = 0 THEN NaN ELSE SortFrom(data, 1)[Len(data)]

\* the scale at which deviations up to big are squared
ScaleFor(big) == IF big < 50 THEN 100 ELSE IF big < 2000 THEN 10 ELSE 1

\* the square root of a variance held at the given scale
StdOfVar(var, scale) ==
    IF var < 200000
    THEN Num(ISqrt(var * 10000), 100 * scale)
    ELSE Num(ISqrt(var), scale)

StdScaled(data, mean, scale) ==
    StdOfVar(SumSqFrom(data, mean, scale, 1) \div (Len(data) - 1), scale)

StdAbout(data, mean) ==
    StdScaled(data, mean, ScaleFor(MaxAbsDevFrom(data, mean, 1)))

\* Series.std(): sample standard deviation (ddof = 1), NaN below two
\* values; deviations are taken to about four significant digits
Std(data) == IF Len(data) < 2 THEN NaN ELSE StdAbout(data, Mean(data))

\* variant of StatsDict that divides by the mean whatever its value
StatsDictUnguarded(count, mean, median, std, min, max, q25, q75) ==
    [count |-> count,
     mean |-> mean,
     median |-> median,
     std |-> std,
     min |-> min,
     max |-> max,
     q25 |-> q25,
     q75 |-> q75,
     iqr |-> Sub(q75, q25),
     cv |-> Mul(Div(std, mean), I(100))]

\* stats_dict, from the values computed on data
StatsDict(count, mean, median, std, min, max, q25, q75) ==
    [count |-> count,
     mean |-> mean,
     median |-> median,
     std |-> std,
     min |-> min,
     max |-> max,
     q25 |-> q25,
     q75 |-> q75,
     iqr |-> Sub(q75, q25),
     cv |-> IF ~Eq(mean, I(0)) THEN Mul(Div(std, mean), I(100)) ELSE I(0)]

\* the statistics of a series after dropna()
StatsOf(data) ==
    StatsDict(Len(data), Mean(data), Quantile(data, 1, 2), Std(data),
              Minimum(data), Maximum(data),
              Quantile(data, 1, 4), Quantile(data, 3, 4))

\* the stats_dict of calculate_descriptive_stats for the values of a column
calculate_descriptive_stats(values) == StatsOf(dropna(values))

(***************************************************************************)
(* Category distributions and report                                       *)
(***************************************************************************)
RECURSIVE DistinctFrom(_, _, _)
DistinctFrom(values, i, seen) ==
    IF i > Len(values) THEN << >>
    ELSE IF values[i] \in seen THEN DistinctFrom(values, i + 1, seen)
         ELSE << values[i] >> \o DistinctFrom(values, i + 1, seen \cup {values[i]})

\* variant of Occurrences that counts every category once
OccurrencesOnce(values, v) == 1

Occurrences(values, v) == Cardinality({i \in 1..Len(values) : values[i] = v})

\* a (category, count) entry goes behind the entries with an equal or larger count
RECURSIVE InsertByCount(_, _)
InsertByCount(e, sorted) ==
    IF sorted = << >> THEN << e >>
    ELSE IF Head(sorted).count >= e.count
         THEN << Head(sorted) >> \o InsertByCount(e, Tail(sorted))
         ELSE << e >> \o sorted

RECURSIVE SortByCount(_, _)
SortByCount(entries, i) ==
    IF i = 0 THEN << >>
    ELSE InsertByCount(entries[i], SortByCount(entries, i - 1))

\* Series.value_counts().to_dict(): the entries with the largest count first,
\* equal counts in the order of first appearance
value_counts(values) ==
    LET cats == DistinctFrom(values, 1, {})
        entries == [j \in 1..Len(cats) |->
                       [category |-> cats[j], count |-> Occurrences(values, cats[j])]]
    IN  SortByCount(entries, Len(entries))

\* {cat: count / total * 100 for cat, count in distribution.items()}
Percentages(distribution, total) ==
    [j \in 1..Len(distribution) |->
        [category |-> distribution[j].category,
         percentage |-> Mul(Div(I(distribution[j].count), I(total)), I(100))]]

\* the columns a call reads, in the order it reads them
SizeColumns == << "area_um2", "perimeter_um", "equivalent_diameter_um",
                  "size_category" >>
ShapeColumns == << "aspect_ratio", "eccentricity", "solidity", "shape_category" >>

Missing(table, cols) == \E j \in 1..Len(cols) : cols[j] \notin table.columns

\* size_stats, from the distribution of the size categories
SizeStats(table, size_distribution) ==
    [exc |-> None,
     area |-> calculate_descriptive_stats(Column(table, "area_um2")),
     perimeter |-> calculate_descriptive_stats(Column(table, "perimeter_um")),
     diameter |->
         calculate_descriptive_stats(Column(table, "equivalent_diameter_um")),
     category_distribution |-> size_distribution,
     category_percentages |-> Percentages(size_distribution, Len(table.rows))]

analyze_size_distribution(table) ==
    IF Missing(table, SizeColumns) THEN [exc |-> "KeyError"]
    ELSE SizeStats(table, value_counts(Column(table, "size_category")))

\* shape_stats, from the distribution of the shape categories
ShapeStats(table, shape_distribution) ==
    [exc |-> None,
     aspect_ratio |-> calculate_descriptive_stats(Column(table, "aspect_ratio")),
     eccentricity |-> calculate_descriptive_stats(Column(table, "eccentricity")),
     solidity |-> calculate_descriptive_stats(Column(table, "solidity")),
     category_distribution |-> shape_distribution,
     category_percentages |-> Percentages(shape_distribution, Len(table.rows))]

analyze_shape_distribution(table) ==
    IF Missing(table, ShapeColumns) THEN [exc |-> "KeyError"]
    ELSE ShapeStats(table, value_counts(Column(table, "shape_category")))

\* f"{x:.<digits>f}": the number of decimals printed and the value printed;
\* nan and inf print as words, without decimals
Format(x, digits) ==
    [digits |-> IF IsNum(x) THEN digits ELSE 0, value |-> Round(x, digits)]

\* str.capitalize() on the category names in use
Capitalize(name) ==
    CASE name = "pequeño" -> "Pequeño"
      [] name = "mediano" -> "Mediano"
      [] name = "grande" -> "Grande"
      [] name = "esférico" -> "Esférico"
      [] name = "alargado" -> "Alargado"
      [] name = "fibra" -> "Fibra"
      [] name = "indefinido" -> "Indefinido"
      [] OTHER -> name

\* the lines "  <Category>: <count> partículas (<percentage>%)" of a section
CategoryLines(analysis) ==
    [j \in 1..Len(analysis.category_percentages) |->
        [line |-> "category",
         name |-> Capitalize(analysis.category_percentages[j].category),
         count |-> analysis.category_distribution[j].count,
         percentage |-> Format(analysis.category_percentages[j].percentage, 1)]]

\* variant of StatLine that prints one decimal
StatLineOneDecimal(label, x) == [line |-> label, value |-> Format(x, 1)]

\* a line "  <label>: <x>" of the area statistics, f"{x:.2f}"
StatLine(label, x) == [line |-> label, value |-> Format(x, 2)]

\* variant of Header that prints the sample line whatever the identifier
HeaderWithSample(total, sid) ==
    << [line |-> "=" ], [line |-> "REPORTE DE ANÁLISIS DE MICROPLÁSTICOS"],
       [line |-> "Muestra", sample |-> sid],
       [line |-> "="], [line |-> ""],
       [line |-> "Número total de partículas detectadas", total |-> total],
       [line |-> ""] >>

\* the lines of the report up to the size section
Header(total, sid) ==
    << [line |-> "=" ], [line |-> "REPORTE DE ANÁLISIS DE MICROPLÁSTICOS"] >>
    \o (IF Truthy(sid) THEN << [line |-> "Muestra", sample |-> sid] >>
        ELSE << >>)
    \o << [line |-> "="], [line |-> ""],
          [line |-> "Número total de partículas detectadas", total |-> total],
          [line |-> ""] >>

\* the lines "ESTADÍSTICOS DE ÁREA" of the report
AreaLines(area_stats) ==
    << [line |-> "ESTADÍSTICOS DE ÁREA (μm²):"], [line |-> "-"],
       StatLine("Media", area_stats.mean),
       StatLine("Mediana", area_stats.median),
       StatLine("Desviación estándar", area_stats.std),
       StatLine("Mínimo", area_stats.min),
       StatLine("Máximo", area_stats.max) >>

\* the report, from the two analyses (the size analysis is computed first)
Report(total, sid, size_analysis, shape_analysis) ==
    IF size_analysis.exc # None THEN [exc |-> size_analysis.exc]
    ELSE IF shape_analysis.exc # None THEN [exc |-> shape_analysis.exc]
    ELSE [exc |-> None,
          text |->
            Header(total, sid)
            \o << [line |-> "DISTRIBUCIÓN DE TAMAÑOS:"], [line |-> "-"] >>
            \o CategoryLines(size_analysis)
            \o << [line |-> ""] >>
            \o AreaLines(size_analysis.area)
            \o << [line |-> ""],
                  [line |-> "DISTRIBUCIÓN DE FORMAS:"], [line |-> "-"] >>
            \o CategoryLines(shape_analysis)
            \o << [line |-> ""], [line |-> "="] >>]

\* generate_summary_report(df, sample_id): the lines of the report, or the
\* exception raised while computing them
generate_summary_report(table, sid) ==
    Report(Len(table.rows), sid, analyze_size_distribution(table),
           analyze_shape_distribution(table))

\* variant of Concentration that leaves the dilution factor out
ConcentrationUndiluted(n_particles, total_area, mean_area, volume, dilution) ==
    [exc |-> None,
     particles_per_ml |-> Div(n_particles, volume),
     total_area_um2_per_ml |-> Div(total_area, volume),
     mean_area_per_ml |-> Div(mean_area, volume)]

\* the dictionary of calculate_concentration from the count, the sum and
\* the mean of the areas
Concentration(n_particles, total_area, mean_area, volume, dilution) ==
    [exc |-> None,
     particles_per_ml |-> Div(Mul(n_particles, dilution), volume),
     total_area_um2_per_ml |-> Div(Mul(total_area, dilution), volume),
     mean_area_per_ml |-> Div(Mul(mean_area, dilution), volume)]

\* calculate_concentration(df, sample_volume_ml, dilution_factor): the first
\* quotient divides Python numbers, so a volume of 0 raises
calculate_concentration(table, volume, dilution) ==
    IF volume.n = 0 THEN [exc |-> "ZeroDivisionError"]
    ELSE IF "area_um2" \notin table.columns THEN [exc |-> "KeyError"]
    ELSE Concentration(I(Len(table.rows)),
                       SumFrom(dropna(Column(table, "area_um2")), 1),
                       Mean(dropna(Column(table, "area_um2"))),
                       volume, dilution)

(***************************************************************************)
(* Comparison of samples (StatisticalAnalyzer.compare_samples)             *)
(***************************************************************************)
\* what scipy.stats returns when a test has no defined value
NaNResult == [exc |-> None, statistic |-> NaN, p_value |-> NaN]

\* df[parameter].dropna() of every sample, in the order of dfs
Groups(dfs, parameter) ==
    [i \in 1..Len(dfs) |-> dropna(Column(dfs[i].df, parameter))]

SomeEmpty(groups) == \E i \in 1..Len(groups) : Len(groups[i]) = 0

\* all observations of all groups are one and the same number
AllIdentical(groups) ==
    \A i, j \in 1..Len(groups) :
        \A a \in 1..Len(groups[i]), b \in 1..Len(groups[j]) :
            groups[i][a] = groups[j][b]

\* stats.shapiro(data) of the i-th sample under the scipy in use
shapiro(scipy, i) == scipy.shapiro[((scipy.offset + i) % Len(scipy.shapiro)) + 1]

\* stats.ttest_ind(data1, data2): nan when a group has fewer than 2 values
ttest_ind(groups, scipy) ==
    IF \E i \in 1..Len(groups) : Len(groups[i]) < 2
    THEN NaNResult ELSE scipy.parametric

\* stats.mannwhitneyu(data1, data2, alternative='two-sided'): on an empty
\* group, or on observations that are all identical, the scipy releases
\* differ: ValueError in some, nan (or a value) in others
mannwhitneyu(groups, scipy) ==
    IF (SomeEmpty(groups) \/ AllIdentical(groups)) /\ scipy.raises
    THEN [exc |-> "ValueError"]
    ELSE IF SomeEmpty(groups) THEN NaNResult ELSE scipy.nonparametric

\* stats.f_oneway(*data_groups): nan when a group is empty
f_oneway(groups, scipy) ==
    IF SomeEmpty(groups) THEN NaNResult ELSE scipy.parametric

\* stats.kruskal(*data_groups): nan when a group is empty; on observations
\* that are all identical the scipy releases differ (ValueError or a value)
kruskal(groups, scipy) ==
    IF SomeEmpty(groups) THEN NaNResult
    ELSE IF AllIdentical(groups) /\ scipy.raises THEN [exc |-> "ValueError"]
    ELSE scipy.nonparametric

ShapiroKey(sid) == sid \o "_shapiro"

\* the entry of a normality test
ShapiroEntry(r) ==
    [statistic |-> r.statistic, p_value |-> r.p_value,
     is_normal |-> Lt(Num(5, 100), r.p_value)]

\* the entry of a hypothesis test
TestEntry(r) ==
    [statistic |-> r.statistic, p_value |-> r.p_value,
     significant |-> Lt(r.p_value, Num(5, 100))]

\* variant of TestKeys that picks the parametric tests when every sample
\* was tested for normality and the rank tests otherwise
TestKeysByNormality(dfs, tested) ==
    { ShapiroKey(dfs[i].sample_id) : i \in tested }
    \cup (IF Len(dfs) = 2
          THEN (IF tested = 1..Len(dfs) THEN {"t_test"} ELSE {"mann_whitney"})
          ELSE IF Len(dfs) > 2
          THEN (IF tested = 1..Len(dfs) THEN {"anova"} ELSE {"kruskal_wallis"})
          ELSE {})

\* the keys of comparison['statistical_tests'] written for len(dfs) samples
\* of which those in tested had at least 3 values
TestKeys(dfs, tested) ==
    { ShapiroKey(dfs[i].sample_id) : i \in tested }
    \cup (IF Len(dfs) = 2 THEN {"t_test", "mann_whitney"}
          ELSE IF Len(dfs) > 2 THEN {"anova", "kruskal_wallis"}
          ELSE {})

\* comparison['statistical_tests']
StatisticalTests(dfs, groups, scipy, tested) ==
    [k \in TestKeys(dfs, tested) |->
        CASE k = "t_test" -> TestEntry(ttest_ind(groups, scipy))
          [] k = "mann_whitney" -> TestEntry(mannwhitneyu(groups, scipy))
          [] k = "anova" -> TestEntry(f_oneway(groups, scipy))
          [] k = "kruskal_wallis" -> TestEntry(kruskal(groups, scipy))
          [] OTHER ->
               ShapiroEntry(shapiro(scipy,
                   CHOOSE i \in tested : ShapiroKey(dfs[i].sample_id) = k))]

\* variant of Tested that takes the samples of at least 2 values
TestedFromTwo(groups) == {i \in 1..Len(groups) : Len(groups[i]) >= 2}

\* the samples given to the Shapiro-Wilk test: if len(data) >= 3
Tested(groups) == {i \in 1..Len(groups) : Len(groups[i]) >= 3}

\* the exception that ends the comparison, if a test raises
TestException(groups, scipy) ==
    IF Len(groups) = 2 THEN mannwhitneyu(groups, scipy).exc
    ELSE IF Len(groups) > 2 THEN kruskal(groups, scipy).exc
    ELSE None

\* the comparison dictionary, from the groups of the parameter
Comparison(dfs, groups, scipy) ==
    IF TestException(groups, scipy) # None
    THEN [exc |-> TestException(groups, scipy)]
    ELSE [exc |-> None,
          samples |-> [i \in 1..Len(dfs) |->
                          [sample_id |-> dfs[i].sample_id,
                           stats |-> StatsOf(groups[i])]],
          statistical_tests |->
              StatisticalTests(dfs, groups, scipy, Tested(groups))]

\* compare_samples(dfs, parameter) under the scipy in use
compare_samples(dfs, parameter, scipy) ==
    IF \E i \in 1..Len(dfs) : parameter \notin dfs[i].df.columns
    THEN [exc |-> "KeyError"]
    ELSE Comparison(dfs, Groups(dfs, parameter), scipy)

(***************************************************************************)
(* Raw detections                                                          *)
(***************************************************************************)
\* sequences over S of length 0..n
SeqUpTo(S, n) == UNION {[1..m -> S] : m \in 0..n}

\* boxes a detector hands over: regular, square, and degenerate ones
\* (zero width, zero height, inverted corners)
Boxes ==
    { [xyxy |-> << 0, 0, 10, 40 >>, conf |-> Num(9, 10), cls |-> 0],
      [xyxy |-> << 0, 0, 40, 10 >>, conf |-> Num(9, 10), cls |-> 0],
      [xyxy |-> << 0, 0, 40, 30 >>, conf |-> Num(9, 10), cls |-> 1],
      [xyxy |-> << 2, 3, 6, 7 >>, conf |-> Num(1, 2), cls |-> 3],
      [xyxy |-> << 5, 5, 5, 9 >>, conf |-> Num(1, 2), cls |-> 1],
      [xyxy |-> << 5, 5, 9, 5 >>, conf |-> Num(1, 2), cls |-> 1],
      [xyxy |-> << 9, 5, 5, 9 >>, conf |-> Num(3, 10), cls |-> 7] }

\* region properties as skimage.measure.regionprops reports them for
\* a single pixel, a 12x1 line, a 10x4 rectangle and a large blob
Shape(area, perimeter, major, minor, ecc, sol, eqd) ==
    [area |-> area, perimeter |-> perimeter, centroid |-> << 5, 5 >>,
     bbox |-> << 0, 0, 10, 10 >>, major_axis_length |-> major,
     minor_axis_length |-> minor, eccentricity |-> ecc, solidity |-> sol,
     orientation |-> I(0), equivalent_diameter |-> eqd]

Shapes ==
    { Shape(I(1), I(0), I(0), I(0), I(0), I(1), Num(113, 100)),
      Shape(I(12), I(11), Num(1381, 100), I(0), I(1), I(1), Num(391, 100)),
      Shape(I(40), I(24), Num(1149, 100), Num(447, 100), Num(92, 100), I(1),
            Num(714, 100)),
      Shape(I(60000), I(900), I(300), I(255), Num(53, 100), Num(9, 10),
            Num(27640, 100)) }

\* measure.regionprops(labeled_image): regions in label order, labels 1..n
Regionprops(shapes) ==
    [i \in 1..Len(shapes) |->
        [f \in DOMAIN shapes[i] \cup {"label"} |->
            IF f = "label" THEN i ELSE shapes[i][f]]]

\* min_area / max_area arguments a caller gives
AreaFilters ==
    { [min_area |-> NoneNum, max_area |-> NoneNum],
      [min_area |-> I(0), max_area |-> NoneNum],
      [min_area |-> I(1), max_area |-> NoneNum],
      [min_area |-> NoneNum, max_area |-> I(20)] }

(***************************************************************************)
(* Extraction                                                              *)
(***************************************************************************)
\* ImageProcessor.extract_particles on a labelled image
ExtractParticles(shapes, min_area, max_area) ==
    /\ policy = None
    /\ policy' = "region"
    /\ detections' = Regionprops(shapes)
    /\ filter' = [min_area |-> min_area, max_area |-> max_area]
    /\ particles' = extract_particles(Regionprops(shapes), min_area, max_area,
                                      pixels_to_um)
    /\ raised' = None
    /\ UNCHANGED << gui, results, run, calibration, pixels_to_um, size_categories,
                    aspect_ratio_categories, sample_id, df, result >>

\* YOLODetector.detect_particles on the boxes of one prediction
DetectParticles(boxes) ==
    /\ policy = None
    /\ policy' = "bbox"
    /\ detections' = boxes
    /\ filter' = [min_area |-> NoneNum, max_area |-> NoneNum]
    /\ particles' = detect_particles(boxes, pixels_to_um)
    /\ raised' = None
    /\ UNCHANGED << gui, results, run, calibration, pixels_to_um, size_categories,
                    aspect_ratio_categories, sample_id, df, result >>

(***************************************************************************)
(* Aggregation and analysis of the sample in hand                          *)
(***************************************************************************)
\* sample identifiers a caller gives (None: argument omitted)
SampleIds == {None, "", "M1"}

\* numeric columns a caller asks statistics for
StatColumns == {"area_um2", "equivalent_diameter_um", "aspect_ratio", "eccentricity"}

\* df = analyzer.particles_to_dataframe(particles, sample_id)
\* variant of ParticlesToDataframe that writes the labels and the sample id
\* into the particle records of the caller
ParticlesToDataframeInPlace(sid) ==
    /\ policy # None
    /\ ~df.exists
    /\ raised = None
    /\ LET r == particles_to_dataframe(particles, sid, size_categories,
                                       aspect_ratio_categories)
       IN  /\ raised' = r.exc
           /\ df' = r.df
           /\ particles' = IF r.exc = None THEN r.df.rows ELSE particles
    /\ sample_id' = sid
    /\ UNCHANGED << gui, results, run, calibration, pixels_to_um, size_categories,
                    aspect_ratio_categories, policy, detections, filter, result >>

\* the caller aggregates the particle list it holds into a table
ParticlesToDataframe(sid) ==
    /\ policy # None
    /\ ~df.exists
    /\ raised = None
    /\ LET r == particles_to_dataframe(particles, sid, size_categories,
                                       aspect_ratio_categories)
       IN  /\ raised' = r.exc
           /\ df' = r.df
    /\ sample_id' = sid
    /\ UNCHANGED << gui, results, run, calibration, pixels_to_um, size_categories,
                    aspect_ratio_categories, policy, detections, filter,
                    particles, result >>

\* analyzer.calculate_descriptive_stats(df, column)
CalculateDescriptiveStats(column) ==
    /\ df.exists
    /\ IF column \in df.columns
       THEN /\ result' = [op |-> "calculate_descriptive_stats", arg |-> column,
                          val |-> calculate_descriptive_stats(Column(df, column))]
            /\ raised' = None
       ELSE /\ result' = NoResult
            /\ raised' = "KeyError"
    /\ UNCHANGED << gui, results, run, calibration, pixels_to_um, size_categories,
                    aspect_ratio_categories, policy, detections, filter,
                    particles, sample_id, df >>

\* analyzer.analyze_size_distribution(df)
AnalyzeSizeDistribution ==
    /\ df.exists
    /\ LET r == analyze_size_distribution(df)
       IN  /\ raised' = r.exc
           /\ result' = IF r.exc = None
                        THEN [op |-> "analyze_size_distribution", val |-> r]
                        ELSE NoResult
    /\ UNCHANGED << gui, results, run, calibration, pixels_to_um, size_categories,
                    aspect_ratio_categories, policy, detections, filter,
                    particles, sample_id, df >>

\* analyzer.analyze_shape_distribution(df)
AnalyzeShapeDistribution ==
    /\ df.exists
    /\ LET r == analyze_shape_distribution(df)
       IN  /\ raised' = r.exc
           /\ result' = IF r.exc = None
                        THEN [op |-> "analyze_shape_distribution", val |-> r]
                        ELSE NoResult
    /\ UNCHANGED << gui, results, run, calibration, pixels_to_um, size_categories,
                    aspect_ratio_categories, policy, detections, filter,
                    particles, sample_id, df >>

\* analyzer.generate_summary_report(df, sample_id)
GenerateSummaryReport ==
    /\ df.exists
    /\ LET r == generate_summary_report(df, sample_id)
       IN  /\ raised' = r.exc
           /\ result' = IF r.exc = None
                        THEN [op |-> "generate_summary_report", val |-> r.text]
                        ELSE NoResult
    /\ UNCHANGED << gui, results, run, calibration, pixels_to_um, size_categories,
                    aspect_ratio_categories, policy, detections, filter,
                    particles, sample_id, df >>

\* the caller turns to the next image: the locals of the sample are dropped
NextSample ==
    /\ policy # None
    /\ policy' = None
    /\ detections' = << >>
    /\ filter' = [min_area |-> NoneNum, max_area |-> NoneNum]
    /\ particles' = << >>
    /\ sample_id' = None
    /\ df' = NoDf
    /\ result' = NoResult
    /\ raised' = None
    /\ UNCHANGED << gui, results, run, calibration, pixels_to_um, size_categories,
                    aspect_ratio_categories >>

Next ==
    \/ \E shapes \in SeqUpTo(Shapes, MaxParticles), f \in AreaFilters :
          ExtractParticles(shapes, f.min_area, f.max_area)
    \/ \E boxes \in SeqUpTo(Boxes, MaxParticles) : DetectParticles(boxes)
    \/ \E sid \in SampleIds : ParticlesToDataframe(sid)
    \/ \E column \in StatColumns : CalculateDescriptiveStats(column)
    \/ AnalyzeSizeDistribution
    \/ AnalyzeShapeDistribution
    \/ GenerateSummaryReport
    \/ NextSample

Spec == Init /\ [][Next]_vars

(***************************************************************************)
(* Direct calls of the analyzer on a table                                 *)
(***************************************************************************)
\* the table of a particle list under the default categories
TableOf(parts) ==
    particles_to_dataframe(parts, "M1", MORPHOLOGY_PARAMS.size_categories,
                           MORPHOLOGY_PARAMS.aspect_ratio_categories).df

\* particle lists of the region policy (regions of 1 to 50000 pixels)
RegionLists ==
    { extract_particles(Regionprops(shapes), I(1), NoneNum, I(1)) :
        shapes \in SeqUpTo(Shapes, MaxParticles) } \ { << >> }

\* particle lists of the bounding-box policy, one detection each
BoxLists == { detect_particles(boxes, I(1)) : boxes \in SeqUpTo(Boxes, 1) } \ { << >> }

\* a DataFrame with the columns of a region table and no rows
EmptyTable ==
    [exists |-> TRUE,
     columns |-> TableOf(CHOOSE parts \in RegionLists : TRUE).columns,
     rows |-> << >>]

\* tables a caller hands to the analyzer
Tables == { EmptyTable } \cup { TableOf(parts) : parts \in RegionLists \cup BoxLists }

\* the analyzer of StatisticalAnalyzer() and a table in hand
InitTable ==
    /\ calibration = NoneNum
    /\ pixels_to_um = OrDefault(calibration, IMAGE_PARAMS.pixels_to_um)
    /\ size_categories = MORPHOLOGY_PARAMS.size_categories
    /\ aspect_ratio_categories = MORPHOLOGY_PARAMS.aspect_ratio_categories
    /\ policy = None
    /\ detections = << >>
    /\ filter = [min_area |-> NoneNum, max_area |-> NoneNum]
    /\ particles = << >>
    /\ sample_id \in SampleIds
    /\ df \in Tables
    /\ result = NoResult
    /\ raised = None
    /\ results = << >>
    /\ run = NoRun
    /\ gui = NoGui

\* sample volumes in millilitres and dilution factors of a caller
Volumes == {I(0), Num(1, 2), I(2)}
DilutionFactors == {NoneNum, I(1), I(3), Num(5, 2)}

\* dilution_factor: float = 1.0
DilutionOf(dilution) == IF IsNone(dilution) THEN I(1) ELSE dilution

CalculateConcentration(volume, dilution) ==
    /\ df.exists
    /\ result' =
          IF calculate_concentration(df, volume, DilutionOf(dilution)).exc = None
          THEN [op |-> "calculate_concentration",
                arg |-> [sample_volume_ml |-> volume, dilution_factor |-> dilution],
                val |-> calculate_concentration(df, volume, DilutionOf(dilution))]
          ELSE NoResult
    /\ raised' = calculate_concentration(df, volume, DilutionOf(dilution)).exc
    /\ UNCHANGED << gui, results, run, calibration, pixels_to_um, size_categories,
                    aspect_ratio_categories, policy, detections, filter,
                    particles, sample_id, df >>

NextTable ==
    \/ \E column \in StatColumns : CalculateDescriptiveStats(column)
    \/ AnalyzeSizeDistribution
    \/ AnalyzeShapeDistribution
    \/ GenerateSummaryReport
    \/ \E volume \in Volumes, dilution \in DilutionFactors :
          CalculateConcentration(volume, dilution)

SpecTable == InitTable /\ [][NextTable]_vars

(***************************************************************************)
(* Direct calls of compare_samples                                         *)
(***************************************************************************)
\* three regions, the first two alike
ThreeRegions ==
    << CHOOSE r \in Shapes : r.area = I(12), CHOOSE r \in Shapes : r.area = I(12),
       CHOOSE r \in Shapes : r.area = I(40) >>

\* three boxes, the last one with x2 < x1
ThreeBoxes ==
    << CHOOSE b \in Boxes : b.xyxy = << 0, 0, 10, 40 >>,
       CHOOSE b \in Boxes : b.xyxy = << 2, 3, 6, 7 >>,
       CHOOSE b \in Boxes : b.xyxy = << 9, 5, 5, 9 >> >>

\* tables of 0, 1, 1, 3 and 3 rows; the last has an undefined diameter
CompareTables ==
    << EmptyTable,
       TableOf(extract_particles(Regionprops(SubSeq(ThreeRegions, 1, 1)),
                                 I(1), NoneNum, I(1))),
       TableOf(extract_particles(Regionprops(SubSeq(ThreeRegions, 2, 2)),
                                 I(1), NoneNum, I(1))),
       TableOf(extract_particles(Regionprops(ThreeRegions), I(1), NoneNum, I(1))),
       TableOf(detect_particles(ThreeBoxes, I(1))) >>

SampleNames == << "M1", "M2", "M3" >>

\* the dictionary {sample_id: DataFrame} of the tables at the positions picked
DfsOf(picked) ==
    [i \in 1..Len(picked) |->
        [sample_id |-> SampleNames[i], df |-> CompareTables[picked[i]]]]

\* dictionaries of one to three samples
DfsInputs ==
    { DfsOf(picked) : picked \in
        { q \in SeqUpTo(1..Len(CompareTables), Len(SampleNames)) :
            /\ Len(q) >= 1
            /\ \A i \in 1..(Len(q) - 1) : q[i] < q[i + 1] } }

\* parameters a caller compares
Parameters == {"area_um2", "equivalent_diameter_um"}

\* (statistic, p-value) pairs a test reports
TestResults ==
    << [exc |-> None, statistic |-> Num(5, 2), p_value |-> Num(1, 100)],
       [exc |-> None, statistic |-> I(2), p_value |-> Num(5, 100)],
       [exc |-> None, statistic |-> Num(1, 2), p_value |-> Num(1, 2)] >>

\* the scipy in use: what its tests report, and whether its release raises
\* on input a rank test cannot handle
Scipys ==
    { [shapiro |-> TestResults, offset |-> k, parametric |-> TestResults[a],
       nonparametric |-> TestResults[b], raises |-> r] :
        k \in 0..2, a \in 1..3, b \in 1..3, r \in BOOLEAN }

\* analyzer.compare_samples(results, parameter)
CompareSamples(parameter, scipy) ==
    /\ results # << >>
    /\ run = NoRun
    /\ LET r == compare_samples(results, parameter, scipy)
       IN  /\ raised' = r.exc
           /\ result' = IF r.exc = None
                        THEN [op |-> "compare_samples", arg |-> parameter,
                              val |-> r]
                        ELSE [op |-> "compare_samples", arg |-> parameter]
    /\ UNCHANGED << gui, results, run, calibration, pixels_to_um, size_categories,
                    aspect_ratio_categories, policy, detections, filter,
                    particles, sample_id, df >>

\* the analyzer of StatisticalAnalyzer() and a dictionary of tables in hand
InitCompare ==
    /\ calibration = NoneNum
    /\ pixels_to_um = OrDefault(calibration, IMAGE_PARAMS.pixels_to_um)
    /\ size_categories = MORPHOLOGY_PARAMS.size_categories
    /\ aspect_ratio_categories = MORPHOLOGY_PARAMS.aspect_ratio_categories
    /\ policy = None
    /\ detections = << >>
    /\ filter = [min_area |-> NoneNum, max_area |-> NoneNum]
    /\ particles = << >>
    /\ sample_id = None
    /\ df = NoDf
    /\ result = NoResult
    /\ raised = None
    /\ results \in DfsInputs
    /\ run = NoRun
    /\ gui = NoGui

NextCompare ==
    \E parameter \in Parameters, scipy \in Scipys :
        CompareSamples(parameter, scipy)

SpecCompare == InitCompare /\ [][NextCompare]_vars

(***************************************************************************)
(* Analysis run of the GUI entry points (run_analysis)                     *)
(***************************************************************************)
MaxSamples == 3

\* the two GUI entry points
EntryPoints == {"main.py", "main_gui.py"}

\* image files: one with particles, one without, one cv2.imread cannot read
Images == {"particles", "blank", "unreadable"}

\* the image files a user can select: a name (stem and suffix) and a content
File(stem, suffix, image) == [stem |-> stem, suffix |-> suffix, image |-> image]

Files ==
    { File("a", ".jpg", "particles"), File("a", ".png", "blank"),
      File("b", ".jpg", "unreadable"), File("b", ".png", "particles"),
      File("c", ".jpg", "particles") }

\* Path(img_file).stem
StemOf(file) == file.stem

\* dict[key] = value on a dictionary kept in insertion order: a key that is
\* present keeps its place and takes the new value
SetItem(dict, entry) ==
    IF \E i \in 1..Len(dict) : dict[i].sample_id = entry.sample_id
    THEN [i \in 1..Len(dict) |->
            IF dict[i].sample_id = entry.sample_id THEN entry ELSE dict[i]]
    ELSE Append(dict, entry)

\* samples: the dictionary {sample_id: img_file} of the first n selected files
RECURSIVE SamplesUpTo(_, _)
SamplesUpTo(files, n) ==
    IF n = 0 THEN << >>
    ELSE SetItem(SamplesUpTo(files, n - 1),
                 [sample_id |-> StemOf(files[n]), image |-> files[n].image])

SamplesOf(files) == SamplesUpTo(files, Len(files))

\* ImageProcessor.process_image(image_path): the particles of the image, or
\* the exception of load_image
process_image(image, s) ==
    IF image = "unreadable" THEN [exc |-> "FileNotFoundError"]
    ELSE [exc |-> None,
          particles |->
              IF image = "blank" THEN << >>
              ELSE extract_particles(Regionprops(ThreeRegions), NoneNum,
                                     NoneNum, s)]

\* steps 2 to 5 of analyze_single_sample: table, plots, report, export;
\* io is the exception of a plot or file writer, if one fails
AnalyzeParticles(parts, sid, size_cats, aspect_cats, io) ==
    IF particles_to_dataframe(parts, sid, size_cats, aspect_cats).exc # None
    THEN [exc |-> particles_to_dataframe(parts, sid, size_cats, aspect_cats).exc,
          df |-> NoDf]
    ELSE IF io # None THEN [exc |-> io, df |-> NoDf]
    ELSE IF generate_summary_report(
                particles_to_dataframe(parts, sid, size_cats, aspect_cats).df,
                sid).exc # None
    THEN [exc |-> "KeyError", df |-> NoDf]
    ELSE [exc |-> None,
          df |-> particles_to_dataframe(parts, sid, size_cats, aspect_cats).df]

\* the body of analyze_single_sample, the same in both entry points but for
\* the early return of main.py when no particle was detected
SampleBody(entry, processed, sid, size_cats, aspect_cats, io) ==
    IF processed.exc # None THEN [exc |-> processed.exc, df |-> NoDf]
    ELSE IF entry = "main.py" /\ processed.particles = << >>
    THEN [exc |-> None, df |-> NoDf]
    ELSE AnalyzeParticles(processed.particles, sid, size_cats, aspect_cats, io)

\* what the try / except of main.py makes of the body: return None
Caught(outcome) == [exc |-> None, df |-> NoDf]

\* analyze_single_sample(image_path, sample_id): main.py wraps the body in
\* try / except Exception, main_gui.py does not
analyze_single_sample(entry, image, sid, s, size_cats, aspect_cats, io) ==
    IF entry = "main.py"
       /\ SampleBody(entry, process_image(image, s), sid, size_cats,
                     aspect_cats, io).exc # None
    THEN Caught(SampleBody(entry, process_image(image, s), sid, size_cats,
                           aspect_cats, io))
    ELSE SampleBody(entry, process_image(image, s), sid, size_cats,
                    aspect_cats, io)

\* MicroplasticAnalysisSystem(...): main.py passes yolo_model_path to
\* ImageProcessor, whose __init__ takes pixels_to_um alone
SystemInit(entry) == IF entry = "main.py" THEN "TypeError" ELSE None

\* run_analysis up to the first sample: the system is built and the
\* samples are keyed by file stem; files is the image list the run read and
\* analysed lists the calls of analyze_single_sample it has made
BeginRun(entry, files) ==
    /\ run = NoRun
    /\ run' = [status |-> IF SystemInit(entry) = None THEN "running" ELSE "error",
               entry |-> entry,
               files |-> files,
               pending |-> SamplesOf(files),
               analysed |-> << >>,
               failed |-> << >>,
               consolidated |-> FALSE]
    /\ raised' = SystemInit(entry)
    /\ results' = << >>
    /\ UNCHANGED << calibration, pixels_to_um, size_categories,
                    aspect_ratio_categories, policy, detections, filter,
                    particles, sample_id, df, result >>

\* run_analysis called on the selected files
StartRun(entry, files) == BeginRun(entry, files) /\ UNCHANGED gui

\* exceptions of the plot and file writers
IoErrors == {None, "OSError"}

\* one call of analyze_single_sample by run_analysis or by the loop of
\* analyze_multiple_samples; an exception that leaves it ends the run in
\* the except clause of run_analysis
AnalyzeNextSample(io) ==
    /\ run.status = "running"
    /\ run.pending # << >>
    /\ LET sample == Head(run.pending)
           body == SampleBody(run.entry, process_image(sample.image, pixels_to_um),
                              sample.sample_id, size_categories,
                              aspect_ratio_categories, io)
           out == analyze_single_sample(run.entry, sample.image, sample.sample_id,
                                        pixels_to_um, size_categories,
                                        aspect_ratio_categories, io)
       IN  /\ run' = [run EXCEPT
                        !.status = IF out.exc = None THEN "running" ELSE "error",
                        !.pending = Tail(run.pending),
                        !.analysed = Append(run.analysed, sample),
                        !.failed = IF body.exc = None THEN run.failed
                                   ELSE Append(run.failed, sample.sample_id)]
           /\ raised' = out.exc
           /\ results' = IF out.df.exists
                         THEN SetItem(results, [sample_id |-> sample.sample_id,
                                                df |-> out.df])
                         ELSE results
    /\ UNCHANGED << gui, calibration, pixels_to_um, size_categories,
                    aspect_ratio_categories, policy, detections, filter,
                    particles, sample_id, df, result >>

\* the end of run_analysis: generate_consolidated_report, which writes its
\* files if self.results is not empty
FinishRun ==
    /\ run.status = "running"
    /\ run.pending = << >>
    /\ run' = [run EXCEPT !.status = "done", !.consolidated = (results # << >>)]
    /\ UNCHANGED << gui, calibration, pixels_to_um, size_categories,
                    aspect_ratio_categories, policy, detections, filter,
                    particles, sample_id, df, result, raised, results >>

NextRun ==
    \/ \E entry \in EntryPoints, files \in SeqUpTo(Files, MaxSamples) \ { << >> } :
          StartRun(entry, files)
    \/ \E io \in IoErrors : AnalyzeNextSample(io)
    \/ FinishRun

SpecRun == Init /\ [][NextRun]_vars

(***************************************************************************)
(* The window of a GUI entry point (MicroplasticAnalysisGUI)               *)
(***************************************************************************)
MaxStarts == 2

\* the file lists a user selects in the window
Selections ==
    { << File("a", ".jpg", "particles") >>,
      << File("a", ".png", "blank"), File("b", ".png", "particles") >>,
      << File("b", ".jpg", "unreadable"), File("c", ".jpg", "particles") >>,
      << File("a", ".jpg", "particles"), File("a", ".png", "blank"),
         File("c", ".jpg", "particles") >> }

\* the window after __init__ and the construction of its widgets
NewGui(entry) ==
    [entry |-> entry,
     analysis_running |-> FALSE,
     btn_start |-> "normal",
     btn_stop |-> "disabled",
     image_files |-> << >>,
     worker |-> "none",      \* position of the thread of run_analysis
     trainers |-> 0,         \* live threads of run_yolo_training
     workers |-> 0,          \* live background threads
     after |-> 0,            \* analysis_finished callbacks root.after holds
     stopped |-> FALSE,      \* stop_analysis took effect during the present run
     starts |-> 0]           \* threads started so far

\* the user selects image files
SelectImages(files) ==
    /\ gui.entry # None
    /\ gui' = [gui EXCEPT !.image_files = files]
    /\ UNCHANGED << results, run, calibration, pixels_to_um, size_categories,
                    aspect_ratio_categories, policy, detections, filter,
                    particles, sample_id, df, result, raised >>

\* the checks of start_analysis that make it return without a thread;
\* model_ok: a YOLO model is selected and exists (main.py); confirm: the
\* answer to the calibration question (main_gui.py)
StartRefused(g, model_ok, confirm) ==
    \/ g.image_files = << >>
    \/ g.entry = "main.py" /\ ~model_ok
    \/ g.analysis_running
    \/ g.entry = "main_gui.py" /\ ~confirm

\* start_analysis, the command of the start button
StartAnalysis(model_ok, confirm) ==
    /\ gui.entry # None
    /\ gui.btn_start = "normal"
    /\ gui.starts < MaxStarts
    /\ IF StartRefused(gui, model_ok, confirm)
       THEN UNCHANGED << gui, run >>
       ELSE /\ gui' = [gui EXCEPT !.analysis_running = TRUE,
                                  !.btn_start = "disabled",
                                  !.btn_stop = "normal",
                                  !.worker = "started",
                                  !.workers = gui.workers + 1,
                                  !.stopped = FALSE,
                                  !.starts = gui.starts + 1]
            /\ run' = NoRun
    /\ UNCHANGED << results, calibration, pixels_to_um, size_categories,
                    aspect_ratio_categories, policy, detections, filter,
                    particles, sample_id, df, result, raised >>

\* start_yolo_training, the command of the training button of main.py;
\* annotated: there are annotated images; confirm: the answer to the question
StartYoloTraining(annotated, confirm) ==
    /\ gui.entry = "main.py"
    /\ gui.starts < MaxStarts
    /\ IF gui.analysis_running \/ ~annotated \/ ~confirm
       THEN UNCHANGED gui
       ELSE gui' = [gui EXCEPT !.analysis_running = TRUE,
                               !.trainers = gui.trainers + 1,
                               !.workers = gui.workers + 1,
                               !.starts = gui.starts + 1]
    /\ UNCHANGED << results, run, calibration, pixels_to_um, size_categories,
                    aspect_ratio_categories, policy, detections, filter,
                    particles, sample_id, df, result, raised >>

\* the thread of run_yolo_training, to the end of its finally clause
RunYoloTraining ==
    /\ gui.entry # None
    /\ gui.trainers > 0
    /\ gui' = [gui EXCEPT !.analysis_running = FALSE,
                          !.trainers = gui.trainers - 1,
                          !.workers = gui.workers - 1]
    /\ UNCHANGED << results, run, calibration, pixels_to_um, size_categories,
                    aspect_ratio_categories, policy, detections, filter,
                    particles, sample_id, df, result, raised >>

\* stop_analysis, the command of the stop button; main_gui.py asks first
StopAnalysis(confirm) ==
    /\ gui.entry # None
    /\ gui.btn_stop = "normal"
    /\ IF gui.entry = "main_gui.py" /\ ~confirm
       THEN UNCHANGED gui
       ELSE gui' = [gui EXCEPT !.analysis_running = FALSE,
                               !.stopped = gui.worker # "none"]
    /\ UNCHANGED << results, run, calibration, pixels_to_um, size_categories,
                    aspect_ratio_categories, policy, detections, filter,
                    particles, sample_id, df, result, raised >>

\* the thread of run_analysis builds the system and the samples
RunAnalysis ==
    /\ gui.entry # None
    /\ gui.worker = "started"
    /\ BeginRun(gui.entry, gui.image_files)
    /\ gui' = [gui EXCEPT !.worker = "running"]

\* variant of EndRun for a finally clause that runs after a normal end only
EndRunOnSuccess ==
    /\ gui.entry # None
    /\ gui.worker = "running"
    /\ run.status = "done"
    /\ gui' = [gui EXCEPT !.analysis_running = FALSE,
                          !.after = gui.after + 1,
                          !.worker = "none",
                          !.workers = gui.workers - 1]
    /\ run' = [run EXCEPT !.status = "finished"]
    /\ UNCHANGED << results, calibration, pixels_to_um, size_categories,
                    aspect_ratio_categories, policy, detections, filter,
                    particles, sample_id, df, result, raised >>

\* the finally clause of run_analysis
EndRun ==
    /\ gui.entry # None
    /\ gui.worker = "running"
    /\ run.status \in {"done", "error"}
    /\ gui' = [gui EXCEPT !.analysis_running = FALSE,
                          !.after = gui.after + 1,
                          !.worker = "none",
                          !.workers = gui.workers - 1]
    /\ run' = [run EXCEPT !.status = "finished"]
    /\ UNCHANGED << results, calibration, pixels_to_um, size_categories,
                    aspect_ratio_categories, policy, detections, filter,
                    particles, sample_id, df, result, raised >>

\* analysis_finished, called by the event loop of the window
AnalysisFinished ==
    /\ gui.entry # None
    /\ gui.after > 0
    /\ gui' = [gui EXCEPT !.btn_start = "normal",
                          !.btn_stop = "disabled",
                          !.after = gui.after - 1]
    /\ UNCHANGED << results, run, calibration, pixels_to_um, size_categories,
                    aspect_ratio_categories, policy, detections, filter,
                    particles, sample_id, df, result, raised >>

InitGui ==
    /\ calibration = NoneNum
    /\ pixels_to_um = OrDefault(calibration, IMAGE_PARAMS.pixels_to_um)
    /\ size_categories = MORPHOLOGY_PARAMS.size_categories
    /\ aspect_ratio_categories = MORPHOLOGY_PARAMS.aspect_ratio_categories
    /\ policy = None
    /\ detections = << >>
    /\ filter = [min_area |-> NoneNum, max_area |-> NoneNum]
    /\ particles = << >>
    /\ sample_id = None
    /\ df = NoDf
    /\ result = NoResult
    /\ raised = None
    /\ results = << >>
    /\ run = NoRun
    /\ gui \in {NewGui(entry) : entry \in EntryPoints}

\* the steps of the thread of run_analysis
AnalysisStep ==
    \/ RunAnalysis
    \/ \E io \in IoErrors : gui.entry # None /\ AnalyzeNextSample(io)
    \/ gui.entry # None /\ FinishRun
    \/ EndRun

\* the steps of the two worker threads
WorkerStep == AnalysisStep \/ RunYoloTraining

\* the commands and callbacks of the event loop
GuiStep ==
    \/ \E files \in Selections : SelectImages(files)
    \/ \E model_ok, confirm \in BOOLEAN : StartAnalysis(model_ok, confirm)
    \/ \E annotated, confirm \in BOOLEAN : StartYoloTraining(annotated, confirm)
    \/ \E confirm \in BOOLEAN : StopAnalysis(confirm)
    \/ AnalysisFinished

NextGui == WorkerStep \/ GuiStep

SpecGui == InitGui /\ [][NextGui]_vars

\* the loop of run_analysis passes to its next sample: the steps of
\* AnalyzeNextSample, told by what they do to the list of pending samples
\* (whatever the analysis of the sample gives)
LoopAdvances ==
    /\ gui.entry # None
    /\ run.status = "running"
    /\ run.pending # << >>
    /\ \E status \in {"running", "error"} :
       \E failed \in {run.failed,
                      Append(run.failed, Head(run.pending).sample_id)} :
           run' = [run EXCEPT !.status = status,
                              !.pending = Tail(run.pending),
                              !.analysed = Append(run.analysed,
                                                  Head(run.pending)),
                              !.failed = failed]
    /\ UNCHANGED gui

\* the window with threads that are scheduled and an event loop that runs
\* its callbacks: the thread of run_analysis goes on with whichever of its
\* steps is next, the thread of run_yolo_training ends, and the callback
\* queued with root.after is called
SpecGuiFair ==
    /\ SpecGui
    /\ WF_vars(RunAnalysis)
    /\ WF_run(LoopAdvances)
    /\ WF_vars(gui.entry # None /\ FinishRun)
    /\ WF_vars(EndRun)
    /\ WF_vars(RunYoloTraining)
    /\ WF_vars(AnalysisFinished)

(***************************************************************************)
(* Dataset split of the YOLO trainer (YOLOTrainer.convert_voc_to_yolo)     *)
(***************************************************************************)
MaxXmlFiles == 12

\* int(x): the integer part of a number
IntOf(x) == IF x.n >= 0 THEN x.n \div x.d ELSE -((-x.n) \div x.d)

\* seq[lo:hi] for 0 <= lo
Slice(seq, lo, hi) ==
    IF hi <= lo THEN << >>
    ELSE SubSeq(seq, lo + 1, IF hi < Len(seq) THEN hi ELSE Len(seq))

\* seq[lo:] for 0 <= lo
SliceFrom(seq, lo) == Slice(seq, lo, Len(seq))

\* the n annotation files of the directory, as glob lists them
XmlFiles(n) == [i \in 1..n |-> i]

\* orders random.shuffle can leave the list in: each rotation of the list
\* and of its mirror image
Shuffles(files) ==
    LET n == Len(files)
    IN  IF n = 0 THEN {files}
        ELSE UNION { { [i \in 1..n |-> files[((i + k - 1) % n) + 1]],
                       [i \in 1..n |-> files[((n - i + k) % n) + 1]] } :
                     k \in 0..(n - 1) }

\* the split of a list of at most 10 files
SmallSplit(xml_files) ==
    LET total_files == Len(xml_files)
        n_val == IF IntOf(Mul(I(total_files), Num(1, 5))) > 1
                 THEN IntOf(Mul(I(total_files), Num(1, 5))) ELSE 1
        n_test == IF IntOf(Mul(I(total_files), Num(1, 10))) > 0
                  THEN IntOf(Mul(I(total_files), Num(1, 10))) ELSE 0
        n_train == total_files - n_val - n_test
    IN  [train_files |-> Slice(xml_files, 0, n_train),
         val_files |-> Slice(xml_files, n_train, n_train + n_val),
         test_files |-> IF n_test > 0
                        THEN SliceFrom(xml_files, n_train + n_val) ELSE << >>]

\* the split of a list of more than 10 files
LargeSplit(xml_files, train_split, val_split) ==
    LET total_files == Len(xml_files)
        n_train == IntOf(Mul(I(total_files), train_split))
        n_val == IntOf(Mul(I(total_files), val_split))
    IN  [train_files |-> Slice(xml_files, 0, n_train),
         val_files |-> Slice(xml_files, n_train, n_train + n_val),
         test_files |-> SliceFrom(xml_files, n_train + n_val)]

\* the three lists convert_voc_to_yolo makes of the shuffled list
SplitFiles(xml_files, train_split, val_split) ==
    IF Len(xml_files) <= 10 THEN SmallSplit(xml_files)
    ELSE LargeSplit(xml_files, train_split, val_split)

\* the names of the splits handed to _convert_split: those with files
ConvertedSplits(split) ==
    {name \in {"train", "val", "test"} :
        split[name \o "_files"] # << >>}

\* convert_voc_to_yolo() on a directory of n annotation files, shuffled
\* into xml_files; every caller leaves train_split = 0.8, val_split = 0.15
ConvertVocToYolo(n, xml_files) ==
    /\ xml_files \in Shuffles(XmlFiles(n))
    /\ IF n = 0
       THEN /\ raised' = "FileNotFoundError"
            /\ result' = NoResult
       ELSE /\ raised' = None
            /\ result' =
                  [op |-> "convert_voc_to_yolo",
                   total_files |-> n,
                   split |-> SplitFiles(xml_files, Num(4, 5), Num(3, 20)),
                   has_test_split |->
                       SplitFiles(xml_files, Num(4, 5),
                                  Num(3, 20)).test_files # << >>,
                   converted |->
                       ConvertedSplits(SplitFiles(xml_files, Num(4, 5),
                                                  Num(3, 20)))]
    /\ UNCHANGED << gui, results, run, calibration, pixels_to_um, size_categories,
                    aspect_ratio_categories, policy, detections, filter,
                    particles, sample_id, df >>

NextSplit ==
    \E n \in 0..MaxXmlFiles :
        \E xml_files \in Shuffles(XmlFiles(n)) : ConvertVocToYolo(n, xml_files)

\* no window and the default configuration: the trainer is on its own
InitSplit == Init /\ calibration = NoneNum

SpecSplit == InitSplit /\ [][NextSplit]_vars

(***************************************************************************)
(* Properties                                                              *)
(***************************************************************************)
\* cat's range holds v: min <= v < max
Contains(cat, v) == Le(cat.min_val, v) /\ Lt(v, cat.max_val)

Matching(cats, v) == {i \in 1..Len(cats) : Contains(cats[i], v)}

\* the name expected of a classifier: that of the first range holding v
FirstWins(cats, v, name) ==
    \A i \in Matching(cats, v) :
        (\A j \in Matching(cats, v) : i <= j) => name = cats[i].name

\* C1: _classify_by_size and _classify_by_aspect_ratio return the name of the
\* first category, in configured order, whose range satisfies min <= v < max,
\* also when ranges overlap or leave gaps, and the call does not raise.
C1_FirstMatchWins ==
    /\ result.op = "_classify_by_size" =>
          /\ raised = None
          /\ FirstWins(size_categories, result.arg, result.val)
    /\ result.op = "_classify_by_aspect_ratio" =>
          /\ raised = None
          /\ FirstWins(aspect_ratio_categories, result.arg, result.val)

\* a value inside two overlapping size ranges was classified
C1_Witness ==
    /\ result.op = "_classify_by_size"
    /\ Cardinality(Matching(size_categories, result.arg)) >= 2
    /\ result.val = size_categories[1].name

\* C2: under the default size configuration every diameter d >= 0 matches
\* exactly one category: pequeño for 0 <= d < 50, mediano for 50 <= d < 200,
\* grande for d >= 200 (lower bound inclusive, upper bound exclusive).
C2_DefaultSizePartition ==
    ( /\ size_categories = MORPHOLOGY_PARAMS.size_categories
      /\ result.op = "_classify_by_size"
      /\ IsNum(result.arg)
      /\ result.arg.n >= 0 ) =>
        /\ Cardinality(Matching(size_categories, result.arg)) = 1
        /\ result.val = IF result.arg.n < 50 * result.arg.d THEN "pequeño"
                        ELSE IF result.arg.n < 200 * result.arg.d THEN "mediano"
                        ELSE "grande"

\* the boundary diameter 50 was classified under the default configuration
C2_Witness ==
    /\ size_categories = MORPHOLOGY_PARAMS.size_categories
    /\ result.op = "_classify_by_size"
    /\ result.arg = I(50)
    /\ result.val = "mediano"

ClassifierCalled ==
    result.op \in {"_classify_by_size", "_classify_by_aspect_ratio"}

CategoriesCalled ==
    IF result.op = "_classify_by_size" THEN size_categories
    ELSE aspect_ratio_categories

\* C3 as stated: a value in none of the configured ranges is classified as
\* the category "undefined", a value in some range never is.
C3_SentinelUndefined ==
    ClassifierCalled =>
        IF Matching(CategoriesCalled, result.arg) = {}
        THEN result.val = "undefined"
        ELSE result.val # "undefined"

\* C3 (amended): a value in none of the configured ranges is classified as
\* the sentinel category "indefinido", and a value in some configured range
\* is never classified as that sentinel.
C3_SentinelIndefinido ==
    ClassifierCalled =>
        IF Matching(CategoriesCalled, result.arg) = {}
        THEN result.val = "indefinido"
        ELSE result.val # "indefinido"

\* an aspect ratio below 0.8 was classified under the default shape ranges
C3_Witness ==
    /\ aspect_ratio_categories = MORPHOLOGY_PARAMS.aspect_ratio_categories
    /\ result.op = "_classify_by_aspect_ratio"
    /\ result.arg = Num(1, 2)
    /\ result.val = "indefinido"

\* row i of the table carries the fields of particle i and both categories
RowOfParticle(i) ==
    /\ \A f \in DOMAIN particles[i] : df.rows[i][f] = particles[i][f]
    /\ df.rows[i].size_category =
          _classify_by_size(size_categories, particles[i].equivalent_diameter_um)
    /\ df.rows[i].shape_category =
          _classify_by_aspect_ratio(aspect_ratio_categories,
                                    particles[i].aspect_ratio)

RowsInOrder ==
    /\ Len(df.rows) = Len(particles)
    /\ \A i \in 1..Len(particles) : RowOfParticle(i)

CarriesSampleId ==
    /\ "sample_id" \in df.columns
    /\ \A i \in 1..Len(df.rows) : df.rows[i].sample_id = sample_id

\* C4: the table of N >= 1 particles has N rows in input order,
\* row i carrying the given sample id and both classifier results.
C4_RowsCarryGivenId ==
    df.exists =>
        /\ RowsInOrder
        /\ sample_id # None => CarriesSampleId

\* What the code does for C4's case: the table of N >= 1 particles has N
\* rows in input order, row i carrying both classifier results, and the given
\* sample id only when that id is truthy ("if sample_id:"); with the id ''
\* the table has no sample_id column.
C4_RowsCarryNonEmptyId ==
    df.exists =>
        /\ RowsInOrder
        /\ Truthy(sample_id) => CarriesSampleId
        /\ sample_id = "" => "sample_id" \notin df.columns

\* two different particles were aggregated under the id M1
C4_Witness ==
    /\ df.exists
    /\ sample_id = "M1"
    /\ Len(df.rows) = 2
    /\ particles[1] # particles[2]
    /\ df.rows[1].size_category # df.rows[2].size_category

\* C5: aggregating an empty particle list yields a table of 0 rows without
\* raising (and the report on it states a total of 0).
C5_EmptyListAggregates ==
    [][\A sid \in SampleIds :
          (particles = << >> /\ ParticlesToDataframe(sid)) =>
              (raised' = None /\ df'.exists /\ df'.rows = << >>)]_vars

\* C6: the count statistic of a numeric field of the table of N particles is
\* N, for particles of either policy, degenerate detections included.
C6_CountIsN ==
    result.op = "calculate_descriptive_stats" =>
        result.val.count = Len(particles)

RequiredColumns ==
    {"area_um2", "perimeter_um", "equivalent_diameter_um", "aspect_ratio",
     "eccentricity", "solidity", "size_category", "shape_category", "sample_id"}

\* C7: for particles of either policy the table built with a sample id has
\* the columns area_um2, perimeter_um, equivalent_diameter_um, aspect_ratio,
\* eccentricity, solidity, size_category, shape_category and sample_id, and
\* the analyses on it meet no missing field.
C7_RequiredColumns ==
    (df.exists /\ Truthy(sample_id)) =>
        /\ RequiredColumns \subseteq df.columns
        /\ raised # "KeyError"

BoxWidth(box) == I(box.xyxy[3] - box.xyxy[1])
BoxHeight(box) == I(box.xyxy[4] - box.xyxy[2])
BoxArea(box) == Mul(BoxWidth(box), BoxHeight(box))
BoxPerimeter(box) == Mul(I(2), Add(BoxWidth(box), BoxHeight(box)))
BoxDiameter(box) == Sqrt(Div(Mul(I(4), BoxArea(box)), Pi))

\* the region a particle of the region policy was measured on
RegionOf(p) == detections[p.label.n]

Square(x) == Mul(x, x)

\* C8 as stated: under both policies area_um2 = area_px * pixels_to_um^2 and
\* every length field = its pixel value * pixels_to_um.
C8_ExactProducts ==
    /\ policy = "region" =>
          \A i \in 1..Len(particles) :
              LET p == particles[i]
                  r == RegionOf(p)
              IN  /\ p.area_um2 = Mul(r.area, Square(pixels_to_um))
                  /\ p.perimeter_um = Mul(r.perimeter, pixels_to_um)
                  /\ p.major_axis = Mul(r.major_axis_length, pixels_to_um)
                  /\ p.minor_axis = Mul(r.minor_axis_length, pixels_to_um)
                  /\ p.equivalent_diameter_um =
                        Mul(r.equivalent_diameter, pixels_to_um)
    /\ policy = "bbox" =>
          \A i \in 1..Len(particles) :
              LET p == particles[i]
                  b == detections[i]
              IN  /\ p.area_um2 = Mul(BoxArea(b), Square(pixels_to_um))
                  /\ p.perimeter_um = Mul(BoxPerimeter(b), pixels_to_um)
                  /\ p.width_um = Mul(BoxWidth(b), pixels_to_um)
                  /\ p.height_um = Mul(BoxHeight(b), pixels_to_um)
                  /\ p.equivalent_diameter_um = Mul(BoxDiameter(b), pixels_to_um)

\* a and b differ by at most tol (or are both NaN)
Within(a, b, tol) ==
    \/ IsNaN(a) /\ IsNaN(b)
    \/ Le(Sub(a, b), tol) /\ Le(Sub(b, a), tol)

Doubled == Mul(I(2), pixels_to_um)

\* C8 (amended): under the region policy area_um2 = area_px * pixels_to_um^2
\* and every length field = its pixel value * pixels_to_um, so that doubling
\* the scalar quadruples the area and doubles the lengths; under the
\* bounding-box policy each of these fields is that product rounded to two
\* decimals (NaN where the pixel value is NaN), so that doubling the scalar
\* quadruples area_um2 to within 0.025 and doubles the lengths to within 0.015.
C8_ProductsRoundedUnderBoxes ==
    /\ policy = "region" =>
          \A i \in 1..Len(particles) :
              LET p == particles[i]
                  r == RegionOf(p)
                  q == RegionParticle(r, Doubled)
              IN  /\ p.area_um2 = Mul(r.area, Square(pixels_to_um))
                  /\ p.perimeter_um = Mul(r.perimeter, pixels_to_um)
                  /\ p.major_axis = Mul(r.major_axis_length, pixels_to_um)
                  /\ p.minor_axis = Mul(r.minor_axis_length, pixels_to_um)
                  /\ p.equivalent_diameter_um =
                        Mul(r.equivalent_diameter, pixels_to_um)
                  /\ q.area_um2 = Mul(I(4), p.area_um2)
                  /\ \A f \in {"perimeter_um", "major_axis", "minor_axis",
                               "equivalent_diameter_um"} :
                        q[f] = Mul(I(2), p[f])
    /\ policy = "bbox" =>
          \A i \in 1..Len(particles) :
              LET p == particles[i]
                  b == detections[i]
                  q == _calculate_morphology(b.xyxy, Doubled)
              IN  /\ p.area_um2 = Round(Mul(BoxArea(b), Square(pixels_to_um)), 2)
                  /\ p.perimeter_um = Round(Mul(BoxPerimeter(b), pixels_to_um), 2)
                  /\ p.width_um = Round(Mul(BoxWidth(b), pixels_to_um), 2)
                  /\ p.height_um = Round(Mul(BoxHeight(b), pixels_to_um), 2)
                  /\ p.equivalent_diameter_um =
                        Round(Mul(BoxDiameter(b), pixels_to_um), 2)
                  /\ Within(q.area_um2, Mul(I(4), p.area_um2), Num(25, 1000))
                  /\ \A f \in {"perimeter_um", "width_um", "height_um",
                               "equivalent_diameter_um"} :
                        Within(q[f], Mul(I(2), p[f]), Num(15, 1000))

\* a box was measured whose width in um is not a two-decimal number, and
\* doubling the scalar does not double the width reported
C8_Witness ==
    /\ policy = "bbox"
    /\ \E i \in 1..Len(particles) :
          /\ particles[i].width_um # Mul(BoxWidth(detections[i]), pixels_to_um)
          /\ _calculate_morphology(detections[i].xyxy, Doubled).width_um
                # Mul(I(2), particles[i].width_um)

\* C9: under the region policy aspect_ratio = major_axis_px / minor_axis_px
\* for every region with minor_axis_px > 0, and is the sentinel 0, with no
\* division performed, for every region with minor_axis_px = 0.
C9_RegionAspectRatio ==
    policy = "region" =>
        \A i \in 1..Len(particles) :
            LET p == particles[i]
                r == RegionOf(p)
            IN  IF r.minor_axis_length.n > 0
                THEN /\ IsNum(p.aspect_ratio)
                     /\ Mul(p.aspect_ratio, r.minor_axis_length) = r.major_axis_length
                ELSE p.aspect_ratio = I(0)

\* a region without and a region with a minor axis were measured together
C9_Witness ==
    /\ policy = "region"
    /\ \E i, j \in 1..Len(particles) :
          /\ RegionOf(particles[i]).minor_axis_length = I(0)
          /\ RegionOf(particles[i]).major_axis_length.n > 0
          /\ particles[i].aspect_ratio = I(0)
          /\ RegionOf(particles[j]).minor_axis_length.n > 0
          /\ particles[j].aspect_ratio.n > particles[j].aspect_ratio.d

MorphologyFields ==
    {"area_um2", "perimeter_um", "width_um", "height_um", "aspect_ratio",
     "circularity", "elongation", "equivalent_diameter_um", "centroid_x",
     "centroid_y"}

\* C10: under the bounding-box policy no output field of a box, degenerate
\* ones included, is NaN or Inf: aspect_ratio and elongation are 1.0 when
\* the minor dimension is 0, circularity is 0 when the perimeter is 0, and
\* equivalent_diameter_um is finite.
C10_BoxFieldsFinite ==
    policy = "bbox" =>
        \A i \in 1..Len(particles) :
            LET p == particles[i]
                b == detections[i]
            IN  /\ \A f \in MorphologyFields : IsFinite(p[f])
                /\ Min2(BoxWidth(b), BoxHeight(b)) = I(0) =>
                      (p.aspect_ratio = I(1) /\ p.elongation = I(1))
                /\ BoxPerimeter(b) = I(0) => p.circularity = I(0)

\* C11: under the bounding-box policy, for every box with width_px > 0 and
\* height_px > 0, aspect_ratio = width_px / height_px and elongation =
\* max(width_px, height_px) / min(width_px, height_px), which is >= 1 and
\* is 1 exactly when the box is square.
C11_ExactRatios ==
    policy = "bbox" =>
        \A i \in 1..Len(particles) :
            LET p == particles[i]
                w == BoxWidth(detections[i])
                h == BoxHeight(detections[i])
            IN  (Lt(I(0), w) /\ Lt(I(0), h)) =>
                    /\ p.aspect_ratio = Div(w, h)
                    /\ p.elongation = Div(Max2(w, h), Min2(w, h))
                    /\ Le(I(1), p.elongation)
                    /\ (p.elongation = I(1)) <=> (w = h)

\* C11 (amended): for every box with width_px > 0 and height_px > 0,
\* aspect_ratio is width_px / height_px rounded to three decimals and
\* elongation is max / min of the two sides rounded to three decimals, which
\* is >= 1 and is 1 when the box is square; a 10x40 box gives 0.25 and 4.0.
C11_RatiosRoundedToThree ==
    policy = "bbox" =>
        \A i \in 1..Len(particles) :
            LET p == particles[i]
                w == BoxWidth(detections[i])
                h == BoxHeight(detections[i])
            IN  (Lt(I(0), w) /\ Lt(I(0), h)) =>
                    /\ p.aspect_ratio = Round(Div(w, h), 3)
                    /\ p.elongation = Round(Div(Max2(w, h), Min2(w, h)), 3)
                    /\ Le(I(1), p.elongation)
                    /\ (w = h) => (p.elongation = I(1))
                    /\ (w = I(10) /\ h = I(40)) =>
                          (p.aspect_ratio = Num(1, 4) /\ p.elongation = I(4))

\* a 40x30 box, whose ratio 4/3 has no three-decimal value, was measured
\* together with a 10x40 box
C11_Witness ==
    /\ policy = "bbox"
    /\ Len(particles) = 2
    /\ BoxWidth(detections[1]) = I(40) /\ BoxHeight(detections[1]) = I(30)
    /\ particles[1].aspect_ratio = Num(1333, 1000)
    /\ particles[1].elongation = Num(1333, 1000)
    /\ BoxWidth(detections[2]) = I(10) /\ BoxHeight(detections[2]) = I(40)
    /\ particles[2].aspect_ratio = Num(1, 4)

RECURSIVE SumCountsFrom(_, _)
SumCountsFrom(distribution, j) ==
    IF j > Len(distribution) THEN 0
    ELSE distribution[j].count + SumCountsFrom(distribution, j + 1)

RECURSIVE SumPercentagesFrom(_, _)
SumPercentagesFrom(percentages, j) ==
    IF j > Len(percentages) THEN I(0)
    ELSE Add(percentages[j].percentage, SumPercentagesFrom(percentages, j + 1))

\* the category counts of an analysis sum to the rows of the table, and the
\* percentages to 100, or to nothing when the table has no rows
DistributionSums(analysis) ==
    /\ SumCountsFrom(analysis.category_distribution, 1) = Len(df.rows)
    /\ \A j \in 1..Len(analysis.category_percentages) :
          IsFinite(analysis.category_percentages[j].percentage)
    /\ Len(df.rows) > 0 =>
          SumPercentagesFrom(analysis.category_percentages, 1) = I(100)
    /\ Len(df.rows) = 0 =>
          /\ analysis.category_distribution = << >>
          /\ analysis.category_percentages = << >>

\* C12: for every non-empty table the per-category counts returned by
\* analyze_size_distribution and by analyze_shape_distribution sum to the row
\* count and the percentages sum to 100; for an empty table the percentages
\* are empty and nothing is divided by zero.
C12_DistributionsSum ==
    /\ result.op \in {"analyze_size_distribution", "analyze_shape_distribution"}
          => DistributionSums(result.val)
    /\ (df.exists /\ df.rows = << >> /\ ~Missing(df, SizeColumns)) =>
          /\ analyze_size_distribution(df).exc = None
          /\ analyze_shape_distribution(df).exc = None

\* two particles of one size category and two shape categories were analysed
C12_Witness ==
    /\ Len(df.rows) = 2
    /\ result.op = "analyze_shape_distribution"
    /\ Len(result.val.category_distribution) = 2
    /\ df.rows[1].size_category = df.rows[2].size_category

\* the size analysis of a table without rows returned
C12_WitnessEmpty ==
    /\ df.rows = << >>
    /\ result.op = "analyze_size_distribution"
    /\ result.val.area.count = 0

\* a comparison was returned
Compared == result.op = "compare_samples" /\ raised = None

HypothesisTests == {"t_test", "mann_whitney", "anova", "kruskal_wallis"}

\* C13: compare_samples selects the hypothesis tests by the number of samples
\* alone: with 2 samples the result has t_test and mann_whitney and neither
\* anova nor kruskal_wallis, with more than 2 it has anova and kruskal_wallis
\* and neither of the other two; each entry carries statistic, p_value and
\* significant = (p_value < 0.05).
C13_TestsByNumberOfSamples ==
    Compared =>
        LET tests == result.val.statistical_tests
        IN  /\ DOMAIN tests \cap HypothesisTests =
                  (IF Len(results) = 2 THEN {"t_test", "mann_whitney"}
                   ELSE IF Len(results) > 2 THEN {"anova", "kruskal_wallis"}
                   ELSE {})
            /\ \A k \in DOMAIN tests \cap HypothesisTests :
                  /\ DOMAIN tests[k] = {"statistic", "p_value", "significant"}
                  /\ tests[k].significant = Lt(tests[k].p_value, Num(5, 100))

\* two samples, one of them found not normal, were compared and both tests
\* of two samples were entered, the second with a p-value of exactly 0.05
C13_Witness ==
    /\ Compared
    /\ Len(results) = 2
    /\ "M1_shapiro" \in DOMAIN result.val.statistical_tests
    /\ ~result.val.statistical_tests["M1_shapiro"].is_normal
    /\ result.val.statistical_tests["t_test"].significant
    /\ result.val.statistical_tests["mann_whitney"].p_value = Num(5, 100)
    /\ ~result.val.statistical_tests["mann_whitney"].significant

\* the values of the compared parameter that sample i has
ValuesOf(i) == dropna(Column(results[i].df, result.arg))

\* C14: the entry '<sample_id>_shapiro' is present for a sample if and only
\* if the sample has at least 3 non-missing values of the parameter; when
\* present, is_normal = (p_value > 0.05); the descriptive statistics are
\* present for every sample, whatever its size.
C14_ShapiroFromThreeValues ==
    Compared =>
        /\ \A i \in 1..Len(results) :
              LET key == ShapiroKey(results[i].sample_id)
                  tests == result.val.statistical_tests
              IN  /\ (key \in DOMAIN tests) <=> (Len(ValuesOf(i)) >= 3)
                  /\ key \in DOMAIN tests =>
                        tests[key].is_normal = Lt(Num(5, 100), tests[key].p_value)
        /\ Len(result.val.samples) = Len(results)
        /\ \A i \in 1..Len(results) :
              /\ result.val.samples[i].sample_id = results[i].sample_id
              /\ result.val.samples[i].stats.count = Len(ValuesOf(i))

\* a sample of 3 rows and 2 defined diameters got no normality entry, next
\* to a sample of 3 values that got one with a p-value of exactly 0.05
C14_Witness ==
    /\ Compared
    /\ result.arg = "equivalent_diameter_um"
    /\ Len(results) = 2
    /\ Len(results[2].df.rows) = 3
    /\ Len(ValuesOf(2)) = 2
    /\ DOMAIN result.val.statistical_tests =
          {"M1_shapiro", "t_test", "mann_whitney"}
    /\ result.val.statistical_tests["M1_shapiro"].p_value = Num(5, 100)
    /\ ~result.val.statistical_tests["M1_shapiro"].is_normal

\* C15: when a test of compare_samples cannot be computed on the groups it
\* is given (an empty group, say), compare_samples still returns, with the
\* statistics of every sample and every other test entry present and only
\* the entry of that test missing.
C15_TestFailureIsolated ==
    result.op = "compare_samples" =>
        /\ raised = None
        /\ Len(result.val.samples) = Len(results)
        /\ \A i \in Tested([j \in 1..Len(results) |-> ValuesOf(j)]) :
              ShapiroKey(results[i].sample_id) \in DOMAIN result.val.statistical_tests

\* C16: in a run of either entry point, when the analysis of a sample has
\* failed, every later sample is still analysed and the consolidated report
\* is generated from the samples that succeeded.
C16_SampleFailureIsolated ==
    (run.status \in {"done", "error"} /\ run.failed # << >>) =>
        /\ run.status = "done"
        /\ run.pending = << >>
        /\ results # << >> => run.consolidated

\* the positions of the lines of a text that carry a label
PositionsOf(text, label) == {i \in 1..Len(text) : text[i].line = label}

\* the one position of a label that occurs once in a text
PositionOf(text, label) == CHOOSE i \in PositionsOf(text, label) : TRUE

\* the category lines of a text between two positions
CategoriesBetween(text, a, b) ==
    {i \in 1..Len(text) : a < i /\ i < b /\ text[i].line = "category"}

\* the category lines at the given positions name, once each, the categories
\* found in a column of the table, each with the number of its rows
ListsCategories(text, lines, table, column) ==
    /\ {text[i].name : i \in lines}
         = {Capitalize(table.rows[r][column]) : r \in 1..Len(table.rows)}
    /\ \A i, j \in lines : text[i].name = text[j].name => i = j
    /\ \A i \in lines :
          /\ text[i].count >= 1
          /\ text[i].count =
                Cardinality({r \in 1..Len(table.rows) :
                               Capitalize(table.rows[r][column]) = text[i].name})

\* the sections of a report on a table, in their order
SectionsInOrder(text, table, sid) ==
    /\ \A label \in {"REPORTE DE ANÁLISIS DE MICROPLÁSTICOS",
                      "Número total de partículas detectadas",
                      "DISTRIBUCIÓN DE TAMAÑOS:",
                      "ESTADÍSTICOS DE ÁREA (μm²):",
                      "DISTRIBUCIÓN DE FORMAS:"} :
          Cardinality(PositionsOf(text, label)) = 1
    /\ text[2].line = "REPORTE DE ANÁLISIS DE MICROPLÁSTICOS"
    /\ PositionsOf(text, "Muestra") = IF Truthy(sid) THEN {3} ELSE {}
    /\ Truthy(sid) => text[3].sample = sid
    /\ LET total == PositionOf(text, "Número total de partículas detectadas")
           sizes == PositionOf(text, "DISTRIBUCIÓN DE TAMAÑOS:")
           area == PositionOf(text, "ESTADÍSTICOS DE ÁREA (μm²):")
           shapes == PositionOf(text, "DISTRIBUCIÓN DE FORMAS:")
       IN  /\ 3 <= total /\ total < sizes /\ sizes < area /\ area < shapes
           /\ text[total].total = Len(table.rows)
           /\ \A label \in {"Media", "Mediana", "Desviación estándar",
                             "Mínimo", "Máximo"} :
                 \E i \in PositionsOf(text, label) : area < i /\ i < shapes
           /\ CategoriesBetween(text, 0, sizes) = {}
           /\ CategoriesBetween(text, area, shapes) = {}
           /\ ListsCategories(text, CategoriesBetween(text, sizes, area),
                              table, "size_category")
           /\ ListsCategories(text, CategoriesBetween(text, shapes, Len(text) + 1),
                              table, "shape_category")

C17_WitnessNoSample ==
    /\ result.op = "generate_summary_report"
    /\ sample_id = ""
    /\ df.rows # << >>

\* the labels of the area statistics of a report
AreaLabels == {"Media", "Mediana", "Desviación estándar", "Mínimo", "Máximo"}

\* the decimals printed for the numbers of a report
PercentageDecimals(text) ==
    {text[i].percentage.digits : i \in PositionsOf(text, "category")}

AreaDecimals(text) ==
    {text[i].value.digits :
        i \in {j \in 1..Len(text) : text[j].line \in AreaLabels
                                      /\ IsNum(text[j].value.value)}}

\* C18 as stated: every area value and every percentage of the report is
\* printed with exactly 2 decimal places.
C18_TwoDecimalsEverywhere ==
    result.op = "generate_summary_report" =>
        /\ AreaDecimals(result.val) \subseteq {2}
        /\ PercentageDecimals(result.val) \subseteq {2}

\* C18: every area statistic that has a value is printed with exactly 2
\* decimal places (an undefined one prints as nan), and every percentage
\* with exactly 1 decimal place.
C18_DecimalsOfAreaAndPercentage ==
    result.op = "generate_summary_report" =>
        /\ AreaDecimals(result.val) \subseteq {2}
        /\ PercentageDecimals(result.val) \subseteq {1}
        /\ \A i \in 1..Len(result.val) :
              /\ result.val[i].line \in AreaLabels =>
                    /\ IsNum(result.val[i].value.value)
                        \/ result.val[i].value.digits = 0
                    /\ Round(result.val[i].value.value, 2)
                          = result.val[i].value.value
              /\ result.val[i].line = "category" =>
                    Round(result.val[i].percentage.value, 1)
                      = result.val[i].percentage.value

\* a report with percentages and with area statistics that have a value
C18_Witness ==
    /\ result.op = "generate_summary_report"
    /\ PercentageDecimals(result.val) # {}
    /\ \A i \in 1..Len(result.val) :
          result.val[i].line \in AreaLabels => IsNum(result.val[i].value.value)

\* the concentrations of a table are the row count and the sum of the areas,
\* times the dilution factor, over the volume
ConcentrationsOf(val, table, volume, dilution) ==
    /\ Mul(val.particles_per_ml, volume) = Mul(I(Len(table.rows)), dilution)
    /\ Mul(val.total_area_um2_per_ml, volume)
         = Mul(SumFrom(Column(table, "area_um2"), 1), dilution)

\* factors k of the linearity property
ScaleFactors == {I(0), I(2), Num(1, 3)}

\* a dilution factor k times larger gives concentrations k times larger
ScalesWithDilution(val, table, volume, dilution) ==
    \A k \in ScaleFactors :
        /\ calculate_concentration(table, volume, Mul(k, dilution)).particles_per_ml
             = Mul(k, val.particles_per_ml)
        /\ calculate_concentration(table, volume, Mul(k, dilution)).total_area_um2_per_ml
             = Mul(k, val.total_area_um2_per_ml)

\* C19: calculate_concentration returns particles_per_ml = rows * dilution /
\* volume and total_area_um2_per_ml = sum(area_um2) * dilution / volume; for
\* a volume above 0 a dilution factor k times larger makes both k times
\* larger, and without a dilution factor (default 1.0) they are rows / volume
\* and sum(area_um2) / volume.
C19_ConcentrationLinearInDilution ==
    result.op = "calculate_concentration" =>
        /\ ConcentrationsOf(result.val, df, result.arg.sample_volume_ml,
                            DilutionOf(result.arg.dilution_factor))
        /\ ScalesWithDilution(result.val, df, result.arg.sample_volume_ml,
                              DilutionOf(result.arg.dilution_factor))
        /\ IsNone(result.arg.dilution_factor) =>
              /\ result.val.particles_per_ml
                   = Div(I(Len(df.rows)), result.arg.sample_volume_ml)
              /\ result.val.total_area_um2_per_ml
                   = Div(SumFrom(Column(df, "area_um2"), 1),
                         result.arg.sample_volume_ml)

\* the concentration of two particles at a dilution factor other than 1
C19_Witness ==
    /\ result.op = "calculate_concentration"
    /\ Len(df.rows) = 2
    /\ result.arg.dilution_factor = Num(5, 2)
    /\ result.arg.sample_volume_ml = Num(1, 2)
    /\ result.val.particles_per_ml = I(10)

\* the concentration of a table at the default dilution factor
C19_WitnessDefault ==
    /\ result.op = "calculate_concentration"
    /\ df.rows # << >>
    /\ IsNone(result.arg.dilution_factor)

\* the statistics of a stats_dict other than the count
StatNames == {"mean", "median", "std", "min", "max", "q25", "q75", "iqr", "cv"}

\* the number of values of a column that are not missing
ValuesIn(table, column) ==
    Cardinality({r \in 1..Len(table.rows) : ~IsNaN(table.rows[r][column])})

\* C20: calculate_descriptive_stats raises nothing and divides by no zero:
\* the coefficient of variation is 0 when the mean is 0 and std / mean * 100
\* otherwise, no statistic is infinite, and for a column without values the
\* count is 0 and every other statistic is undefined (nan).
C20_StatsWithoutDivisionByZero ==
    result.op = "calculate_descriptive_stats" =>
        /\ raised = None
        /\ result.val.count = ValuesIn(df, result.arg)
        /\ \A name \in StatNames : ~IsInf(result.val[name])
        /\ Eq(result.val.mean, I(0)) => result.val.cv = I(0)
        /\ ~Eq(result.val.mean, I(0)) =>
              result.val.cv
                = Mul(Div(result.val.std, result.val.mean), I(100))
        /\ (IsNum(result.val.mean) /\ ~Eq(result.val.mean, I(0))
              /\ IsNum(result.val.std)) =>
                Mul(result.val.cv, result.val.mean)
                  = Mul(result.val.std, I(100))
        /\ result.val.count = 0 =>
              \A name \in StatNames : IsNaN(result.val[name])

\* the statistics of a column whose values are all 0
C20_Witness ==
    /\ result.op = "calculate_descriptive_stats"
    /\ result.val.count = 2
    /\ result.val.mean = I(0)
    /\ result.val.cv = I(0)

\* the statistics of a column without values
C20_WitnessEmpty ==
    /\ result.op = "calculate_descriptive_stats"
    /\ result.val.count = 0
    /\ IsNaN(result.val.cv)

\* a coefficient of variation computed from a mean other than 0
C20_WitnessQuotient ==
    /\ result.op = "calculate_descriptive_stats"
    /\ IsNum(result.val.cv)
    /\ Lt(I(0), result.val.cv)

\* C21: at most one background thread (of run_analysis or of
\* run_yolo_training) is alive at any time in the window.
C21_AtMostOneWorker == gui.entry # None => gui.workers <= 1

\* the window of main_gui.py, which has no training thread, never has two
\* background threads
C21_AtMostOneWorkerMainGui == gui.entry = "main_gui.py" => gui.workers <= 1

\* C22: once stop_analysis has taken effect while the thread of run_analysis
\* is at work, the thread begins the analysis of no further sample and
\* writes no further report.
C22_StopEndsTheAnalysis ==
    [][(gui.entry # None /\ gui.stopped /\ run.status = "running") =>
          /\ Len(run'.pending) = Len(run.pending)
          /\ run'.consolidated = run.consolidated
          /\ results' = results]_vars

\* a bound of the area filter: the one the caller gave, or the configured one
GivenOr(bound, default) == IF IsNone(bound) THEN default ELSE bound

\* the regions of a labelled image with lo <= area <= hi, in region order
RegionsWithin(regions, lo, hi) ==
    SelectSeq(regions, LAMBDA r : Le(lo, r.area) /\ Le(r.area, hi))

\* the particles are the regions with lo <= area <= hi, in region order
ParticlesAreRegionsWithin(parts, regions, lo, hi) ==
    /\ Len(parts) = Len(RegionsWithin(regions, lo, hi))
    /\ \A i \in 1..Len(parts) :
          /\ parts[i].label = I(RegionsWithin(regions, lo, hi)[i].label)
          /\ parts[i].area_pixels = RegionsWithin(regions, lo, hi)[i].area

\* C23: extract_particles returns exactly the regions whose pixel area a
\* satisfies min_area <= a <= max_area, in region order, with the bounds the
\* caller gave (min_area = 0 included) and the configured 10 and 50000 only
\* where the caller gave none.
C23_FilterByGivenBounds ==
    policy = "region" =>
        ParticlesAreRegionsWithin(
            particles, detections,
            GivenOr(filter.min_area, IMAGE_PARAMS.min_particle_area),
            GivenOr(filter.max_area, IMAGE_PARAMS.max_particle_area))

\* what holds of the bounds: a bound of 0 counts as not given
C23_FilterByTruthyBounds ==
    policy = "region" =>
        ParticlesAreRegionsWithin(
            particles, detections,
            OrDefault(filter.min_area, IMAGE_PARAMS.min_particle_area),
            OrDefault(filter.max_area, IMAGE_PARAMS.max_particle_area))

\* C24: calculate_concentration raises no division error to its caller and
\* returns no NaN: for a volume of 0 and for an empty table it returns a
\* result of sentinel values.
C24_ConcentrationEdgesResolved ==
    /\ raised # "ZeroDivisionError"
    /\ result.op = "calculate_concentration" =>
          /\ IsNum(result.val.particles_per_ml)
          /\ IsNum(result.val.total_area_um2_per_ml)
          /\ IsNum(result.val.mean_area_per_ml)

\* for an empty table and a volume above 0 the mean area per ml is nan
C24_EmptyTableHasNumbers ==
    (result.op = "calculate_concentration" /\ df.rows = << >>) =>
        IsNum(result.val.mean_area_per_ml)

\* every particle of the list was converted with the scalar s
ConvertedWith(s) ==
    /\ policy = "region" =>
          \A i \in 1..Len(particles) :
              /\ particles[i].area_um2 = Mul(particles[i].area_pixels, Square(s))
              /\ particles[i].perimeter_um = Mul(particles[i].perimeter_pixels, s)
    /\ policy = "bbox" =>
          \A i \in 1..Len(particles) :
              /\ particles[i].width_um = Round(Mul(BoxWidth(detections[i]), s), 2)
              /\ particles[i].height_um = Round(Mul(BoxHeight(detections[i]), s), 2)

\* C25: within a run the calibration scalar is fixed: it is the value the
\* caller supplied whenever one was supplied and the configured 1.0 only
\* when none was, and every particle of the run is converted with it.
C25_CalibrationAsSupplied ==
    /\ policy # None =>
          pixels_to_um = GivenOr(calibration, IMAGE_PARAMS.pixels_to_um)
    /\ ConvertedWith(GivenOr(calibration, IMAGE_PARAMS.pixels_to_um))

\* what holds of the scalar: a supplied 0 counts as not supplied, and every
\* particle of the run is converted with the one scalar of the instance
C25_CalibrationShared ==
    /\ pixels_to_um = OrDefault(calibration, IMAGE_PARAMS.pixels_to_um)
    /\ ConvertedWith(pixels_to_um)

\* no operation of the run changes the scalar
C25_CalibrationUnchanged ==
    [][pixels_to_um' = pixels_to_um /\ calibration' = calibration]_vars

\* C26: particles_to_dataframe does not mutate its input: after the call the
\* particle list and every record in it are as before, the labels and the
\* sample id are in the returned table only, and the category configuration
\* of the analyzer is unchanged.
C26_InputNotMutated ==
    [][(policy # None /\ ~df.exists /\ raised = None
        /\ (df'.exists \/ raised' # None)) =>
          /\ particles' = particles
          /\ size_categories' = size_categories
          /\ aspect_ratio_categories' = aspect_ratio_categories
          /\ \A i \in 1..Len(particles') :
                DOMAIN particles'[i] \cap
                    {"size_category", "shape_category", "sample_id"} = {}
          /\ df'.exists =>
                {"size_category", "shape_category"} \subseteq df'.columns]_vars

\* a table with labels and sample id was built from a list of two particles
C26_Witness ==
    /\ df.exists
    /\ sample_id = "M1"
    /\ Len(particles) = 2
    /\ {"size_category", "shape_category", "sample_id"} \subseteq df.columns
    /\ DOMAIN particles[1] \cap {"size_category", "shape_category", "sample_id"} = {}

\* C27: every started analysis run finishes its bookkeeping, whether
\* run_analysis ends normally or raises: analysis_running becomes false and
\* analysis_finished is scheduled, which enables the start button and
\* disables the stop button; and analysis_running is true only while a
\* thread started by start_analysis or start_yolo_training is alive.
C27_RunFinishesBookkeeping ==
    /\ (gui.entry # None /\ gui.worker = "started")
          ~> (gui.worker = "none" /\ ~gui.analysis_running /\ gui.after > 0)
    /\ (gui.entry # None /\ gui.after > 0)
          ~> (gui.after = 0 /\ gui.btn_start = "normal"
              /\ gui.btn_stop = "disabled")
    /\ []((gui.entry # None /\ gui.analysis_running) => gui.workers > 0)

\* a run that raised has finished and the buttons are as before the start
C27_Witness ==
    /\ gui.entry = "main_gui.py"
    /\ run.status = "finished"
    /\ run.failed # << >>
    /\ ~gui.analysis_running
    /\ gui.after = 0
    /\ gui.btn_start = "normal"
    /\ gui.btn_stop = "disabled"

\* the stems of the image list of the run
StemsOf(files) == {StemOf(files[i]) : i \in 1..Len(files)}

\* the image of the last listed file with this stem
LaterListed(files, stem) ==
    files[CHOOSE i \in 1..Len(files) :
              /\ StemOf(files[i]) = stem
              /\ \A j \in (i + 1)..Len(files) : StemOf(files[j]) # stem].image

\* no two entries of the dictionary have the same sample id
OneEntryPerId(dict) ==
    \A i, j \in 1..Len(dict) : dict[i].sample_id = dict[j].sample_id => i = j

RunOver == run.status \in {"done", "error", "finished"}

\* C28: in a GUI analysis run the sample id of an image is its file stem and
\* the samples are keyed by it, so the number of samples analysed equals the
\* number of distinct stems of the image list; of two listed images with one
\* stem only the later listed is analysed under that id, and the results
\* never hold two tables for one sample id.
C28_OneSamplePerStem ==
    /\ RunOver =>
          Len(run.analysed) = Cardinality(StemsOf(run.files))
    /\ run.status # "idle" =>
          /\ \A i \in 1..Len(run.analysed) :
                /\ run.analysed[i].sample_id \in StemsOf(run.files)
                /\ run.analysed[i].image
                      = LaterListed(run.files, run.analysed[i].sample_id)
          /\ OneEntryPerId(run.analysed)
    /\ OneEntryPerId(results)

\* C28, but for the count: what is analysed is keyed by stem, the later
\* listed image of a stem is the one analysed, and when the run ends without
\* an exception every stem has been analysed once.
C28_SamplesKeyedByStem ==
    /\ run.status = "done" =>
          Len(run.analysed) = Cardinality(StemsOf(run.files))
    /\ run.status # "idle" =>
          /\ \A i \in 1..Len(run.analysed) :
                /\ run.analysed[i].sample_id \in StemsOf(run.files)
                /\ run.analysed[i].image
                      = LaterListed(run.files, run.analysed[i].sample_id)
          /\ OneEntryPerId(run.analysed)
    /\ OneEntryPerId(results)

\* a run over two images of one stem has analysed the later listed one
C28_WitnessSharedStem ==
    /\ run.status = "done"
    /\ Len(run.files) = 2
    /\ StemOf(run.files[1]) = StemOf(run.files[2])
    /\ run.files[1].image # run.files[2].image
    /\ Len(run.analysed) = 1
    /\ Len(results) = 1

\* the box classified last, under the default shape ranges
BoxClassified ==
    /\ result.op = "shape_category"
    /\ aspect_ratio_categories = MORPHOLOGY_PARAMS.aspect_ratio_categories

IsBox(width, height) ==
    /\ BoxClassified
    /\ Eq(result.width_px, I(width))
    /\ Eq(result.height_px, I(height))

\* the two boxes of the example: 10x40 is left without a shape category,
\* the transposed 40x10 is a fibre, both with elongation 4.0
OrientationDecides ==
    /\ IsBox(10, 40) => result.val = "indefinido" /\ Eq(result.elongation, I(4))
    /\ IsBox(40, 10) => result.val = "fibra" /\ Eq(result.elongation, I(4))

\* C29 as stated: under the bounding-box policy with the default shape
\* ranges a box with width/height < 0.8 gets the sentinel shape category
\* whatever its elongation (10x40), the transposed box (40x10) gets 'fibra',
\* and a box is 'esférico' exactly when 0.8 <= width/height < 1.2.
C29_ShapeByRatio ==
    /\ OrientationDecides
    /\ (BoxClassified /\ Lt(I(0), result.height_px)) =>
          LET ratio == Div(result.width_px, result.height_px)
          IN  /\ Lt(ratio, Num(4, 5)) => result.val = "indefinido"
              /\ result.val = "esférico"
                    <=> (Le(Num(4, 5), ratio) /\ Lt(ratio, Num(6, 5)))

\* C29 with the ratio as the code classifies it: width/height rounded to
\* three decimals (1.0 for a box whose height is not positive) decides; below
\* 0.8 the box gets the sentinel whatever its elongation (10x40), the
\* transposed box (40x10) gets 'fibra', and a box is 'esférico' exactly when
\* 0.8 <= rounded ratio < 1.2.
C29_ShapeByRoundedRatio ==
    /\ OrientationDecides
    /\ BoxClassified =>
          LET ratio == IF Lt(I(0), result.height_px)
                       THEN Round(Div(result.width_px, result.height_px), 3)
                       ELSE I(1)
          IN  /\ Lt(ratio, Num(4, 5)) => result.val = "indefinido"
              /\ result.val = "esférico"
                    <=> (Le(Num(4, 5), ratio) /\ Lt(ratio, Num(6, 5)))

\* the 10x40 box of the example has been classified
C29_Witness ==
    /\ IsBox(10, 40)
    /\ result.val = "indefinido"
    /\ Eq(result.elongation, I(4))

\* a box of 7.997 by 10 has been classified: its ratio is below 0.8 and
\* rounds to 0.8
C29_WitnessRounded ==
    /\ BoxClassified
    /\ Eq(result.width_px, Num(7997, 1000))
    /\ result.val = "esférico"

\* the files of a list
FilesOf(files) == {files[i] : i \in 1..Len(files)}

Converted == result.op = "convert_voc_to_yolo"

\* the three lists are pairwise disjoint and hold every file exactly once
SplitPartitions ==
    Converted =>
       LET all == result.split.train_files \o result.split.val_files
                     \o result.split.test_files
       IN  /\ Len(all) = result.total_files
           /\ FilesOf(all) = 1..result.total_files

\* C30: convert_voc_to_yolo splits the N >= 1 annotation files into train,
\* val and test lists that are pairwise disjoint and together hold every
\* file exactly once; for N <= 10 the validation list has at least one file,
\* and the training list is not empty for any N >= 1.
C30_SplitCoversAndTrains ==
    /\ SplitPartitions
    /\ (Converted /\ result.total_files <= 10) =>
          result.split.val_files # << >>
    /\ Converted => result.split.train_files # << >>

\* C30 for the lists and the validation file, and the training list for
\* N >= 2 only.
C30_SplitCovers ==
    /\ SplitPartitions
    /\ (Converted /\ result.total_files <= 10) =>
          result.split.val_files # << >>
    /\ (Converted /\ result.total_files >= 2) =>
          result.split.train_files # << >>

\* the directory of one annotation file has been split
C30_WitnessOneFile ==
    /\ Converted
    /\ result.total_files = 1
    /\ result.split.train_files = << >>
    /\ result.split.val_files = << 1 >>

=============================================================================
